---- MODULE Spec2Model ----
(***************************************************************************)
(* Page-aware chunking and citation mapping of Legal_Notebook              *)
(* (src/scripts/filemanagement.py): get_text_with_pages,                   *)
(* FileManager.find_page_range, FileManager.text_splitter and              *)
(* get_text_from_page_range.                                               *)
(*                                                                         *)
(* A text is a sequence of characters.  A paginated document is the        *)
(* sequence of its pages' texts.  A page-map entry is the tuple            *)
(* <<start_char, end_char, page_num>> of the source.  Python's None is the *)
(* empty sequence and a present value v is <<v>>.                          *)
(***************************************************************************)
EXTENDS Integers, Sequences, FiniteSets, TLC

\* ------------------------------------------------------------------ bounds
MaxPages == 2
MaxPageLen == 2
MaxChunkSize == 3
MaxSpan == 4
MaxFetchArg == 10
MaxMapEntries == 2
MaxMapChar == 4
MaxBatchSize == 2
MaxIngestChunks == 3
MaxIngestPage == 11
MaxFiles == 2
MaxPoints == 4
MaxSubBatch == 2
MaxScannerCalls == 4
MaxHistory == 5
MaxAgents == 3

Alphabet == {"a", "b"}

VARIABLES
    pages,          \* the document on disk: one text per page
    paginated,      \* whether the file path ends with ".pdf"
    failure,        \* what failed in the last call: "none", "open", "read", "count"
    call,           \* the function whose frame is live; "none" before a consumer
                    \* of the document is called, "done" once it has returned
    doc,            \* handle of the live/last frame: "none", "open", "closed"
    full_text,      \* get_text_with_pages: accumulated text
    page_map,       \* get_text_with_pages local / find_page_range argument
    page_num,       \* loop index of the page loops (0-based, next page to read)
    text,           \* the DocumentText last returned by get_text_with_pages
    chunkSize,      \* text_splitter argument
    chunkOverlap,   \* text_splitter argument
    chunks,         \* text_splitter: splitter.split_text(content)
    i,              \* text_splitter: number of chunks already walked
    char_position,  \* text_splitter: running cursor
    chunk_start,    \* text_splitter local / find_page_range argument
    chunk_end,      \* text_splitter local / find_page_range argument
    page_range,     \* the last resolved {start_page, end_page}
    chunk_data,     \* text_splitter: records built so far / returned
    start_page,     \* get_text_from_page_range argument
    end_page,       \* get_text_from_page_range argument
    end_idx,        \* get_text_from_page_range local
    extracted_text, \* get_text_from_page_range: accumulated text
    fetched,        \* get_text_from_page_range: <<>> or <<returned string>>
    driver,         \* which ingestion driver runs: "embedding_test" or "_process_pdfs"
    files,          \* find_files(base_dir): the discovered files, in order
    loaded,         \* what load_from_json() returned when the run began
    processed_files_data, \* the processed-files map (its keys)
    file_idx,       \* for file in files: how many files the loop has left behind
    visited,        \* the files the loop has left behind, with what happened
    file_chunks,    \* the chunks text_splitter returned for the current file
    batch_size,     \* chunks per batch
    batch_start,    \* index of the next batch's first chunk
    uploaded,       \* the arguments of each add_embeddings_batch call, in order
    cache_paths,    \* ClientCacheManager.cache_paths.get("summary"): <<>> or <<dir>>
    cache_files,    \* the partition files of the summary cache, by path
    cache_call,     \* the last call on the cache manager and its arguments
    cache_result,   \* how that call ended: returned (with what) or raised
    total_points,   \* add_embeddings_batch: len(embeddings)
    max_batch_size, \* add_embeddings_batch argument
    sub_batch_start, \* add_embeddings_batch: batch_start of the sub-batch loop
    attempt,        \* add_embeddings_batch: index of the retry loop
    upserts,        \* every client.upsert call so far, with how it ended
    upload,         \* add_embeddings_batch: "none", "running", "returned", "raised"
    ENABLE_SCANNER_DETECTION,   \* filemanagement module global
    accessible_scanner_path_cache, \* filemanagement module global: <<>> or <<path>>
    base_path,      \* config vector_database.root_path
    detected_drive, \* what detect_network_drive_mapping() finds now
    accessible,     \* the paths that exist and are readable now
    scanner_calls,  \* the calls on the scanner-path functions so far
    chat_agent,     \* ChatService.chat_agent: which ChatAgent object it is
    client_type,    \* chat_agent.client.client_type: the model it was created for
    message_history, \* chat_agent.client.message_history
    chat_call       \* the last call on the chat service or agent, and the
                    \* agent, model and history it found

vars == <<pages, paginated, failure, call, doc, full_text, page_map, page_num, text, chunkSize,
          chunkOverlap, chunks, i, char_position, chunk_start, chunk_end,
          page_range, chunk_data, start_page, end_page, end_idx,
          extracted_text, fetched, driver, files, loaded, processed_files_data,
          file_idx, visited, file_chunks, batch_size, batch_start, uploaded,
          cache_paths, cache_files, cache_call, cache_result,
          total_points, max_batch_size, sub_batch_start, attempt, upserts,
          upload, ENABLE_SCANNER_DETECTION, accessible_scanner_path_cache,
          base_path, detected_drive, accessible, scanner_calls,
          chat_agent, client_type, message_history, chat_call>>

\* ----------------------------------------------------------------- helpers
None == <<>>

Min(a, b) == IF a < b THEN a ELSE b
Max(a, b) == IF a > b THEN a ELSE b

Repeat(c, n) == [k \in 1..n |-> c]

RECURSIVE Concat(_)
Concat(ss) == IF ss = <<>> THEN <<>> ELSE Head(ss) \o Concat(Tail(ss))

\* Python slice s[a:b] for 0 <= a.
Slice(s, a, b) == SubSeq(s, a + 1, Min(b, Len(s)))

\* ---------------------------------------------------------------- documents
PageTexts == UNION {[1..n -> Alphabet] : n \in 0..MaxPageLen}

\* page_map [(0,10,1),(10,20,2),(20,30,3)]
P4Doc == <<Repeat("a", 10), Repeat("b", 10), Repeat("a", 10)>>

\* page 1 has 100 characters, page 2 is empty, page 3 is non-empty
ScenarioDocs == {<<Repeat("a", 100), <<>>, p3>> : p3 \in {<<"b">>, <<"b", "a">>}}

FiveDoc == << <<"a">>, <<"b", "a">>, <<>>, <<"a", "b">>, <<"b">> >>

\* an empty page between two pages with text
EmptyMiddleDoc == << <<"a", "a">>, <<>>, <<"b">> >>

Docs == (UNION {[1..n -> PageTexts] : n \in 0..MaxPages})
            \cup {P4Doc, FiveDoc, EmptyMiddleDoc}

NoText == [content |-> <<>>, page_map |-> <<>>, source |-> "none"]
NoRange == [start_page |-> 0, end_page |-> 0]

\* ------------------------------------------------------- get_text_from_file
\* Tika's result for the file: no usable content, or the file's text.  The
\* parsed dict carries no 'page_map' key; text.get("page_map", []) is [].
get_text_from_file(outcome) ==
    IF outcome = "content" /\ Concat(pages) # <<>>
    THEN [content |-> Concat(pages), page_map |-> <<>>, source |-> "tika"]
    ELSE [content |-> <<>>, page_map |-> <<>>, source |-> "empty"]

TikaOutcomes == {"content", "failed"}

\* ------------------------------------------------------ get_text_with_pages
\* (variant: the width-1 correction left out)
WidenEndChar_none(start_char, end_char) == end_char

\* Width given to a page-map entry.
WidenEndChar(start_char, end_char) ==
    IF end_char = start_char THEN start_char + 1 ELSE end_char

\* The locals of get_text_with_pages are gone once it has returned.
FreshExtract ==
    /\ full_text' = <<>>
    /\ page_map' = <<>>
    /\ page_num' = 0

ExtractLocals == <<full_text, page_map, page_num>>
SplitLocals == <<chunkSize, chunkOverlap, chunks, i, char_position, chunk_data>>
ResolveLocals == <<chunk_start, chunk_end, page_range>>
FetchLocals == <<start_page, end_page, end_idx, extracted_text, fetched>>
RunLocals == <<driver, files, loaded, batch_size>>
DriverLocals == <<RunLocals, processed_files_data, file_idx, visited, file_chunks,
                  batch_start, uploaded>>

\* no ingestion run is under way
DriverIdle ==
    /\ driver = "none"
    /\ files = <<>>
    /\ loaded = {}
    /\ processed_files_data = {}
    /\ file_idx = 0
    /\ visited = <<>>
    /\ file_chunks = <<>>
    /\ batch_size = 0
    /\ batch_start = 0
    /\ uploaded = <<>>

IngestionVars == <<pages, paginated, failure, call, doc, text, ExtractLocals,
                   SplitLocals, ResolveLocals, FetchLocals, DriverLocals>>
CacheVars == <<cache_paths, cache_files, cache_call, cache_result>>
QdrantVars == <<total_points, max_batch_size, sub_batch_start, attempt,
                upserts, upload>>
ScannerVars == <<ENABLE_SCANNER_DETECTION, accessible_scanner_path_cache,
                 base_path, detected_drive, accessible, scanner_calls>>
ChatVars == <<chat_agent, client_type, message_history, chat_call>>
ServiceVars == <<CacheVars, QdrantVars, ScannerVars, ChatVars>>

\* no call has been made on a cache manager, which has no directory
CacheIdle ==
    /\ cache_paths = None
    /\ cache_files = <<>>
    /\ cache_call = [op |-> "none"]
    /\ cache_result = [status |-> "none", value |-> None]

\* add_embeddings_batch has not been called
QdrantIdle ==
    /\ total_points = 0
    /\ max_batch_size = 0
    /\ sub_batch_start = 0
    /\ attempt = 0
    /\ upserts = <<>>
    /\ upload = "none"

\* the '' of a path, and the module globals as the import leaves them
EmptyPath == [abs |-> FALSE, parts |-> <<>>]

ScannerIdle ==
    /\ ENABLE_SCANNER_DETECTION = FALSE
    /\ accessible_scanner_path_cache = None
    /\ base_path = EmptyPath
    /\ detected_drive = ""
    /\ accessible = {}
    /\ scanner_calls = <<>>

\* no chat service has been constructed
ChatIdle ==
    /\ chat_agent = 0
    /\ client_type = ""
    /\ message_history = <<>>
    /\ chat_call = [op |-> "none"]

ServicesIdle == CacheIdle /\ QdrantIdle /\ ScannerIdle /\ ChatIdle

\* doc = pymupdf.open(filepath); full_text = ""; page_map = []
ExtractOpen ==
    /\ call = "none"
    /\ paginated
    /\ failure' = "none"
    /\ text.source = "none"
    /\ call' = "get_text_with_pages"
    /\ doc' = "open"
    /\ UNCHANGED <<ServiceVars, pages, paginated, DriverLocals, text, ExtractLocals, SplitLocals, ResolveLocals, FetchLocals>>

\* pymupdf.open raises: except -> return get_text_from_file(filepath)
ExtractOpenFails ==
    /\ call = "none"
    /\ paginated
    /\ failure' = "open"
    /\ text.source = "none"
    /\ \E outcome \in TikaOutcomes : text' = get_text_from_file(outcome)
    /\ UNCHANGED <<ServiceVars, pages, paginated, DriverLocals, call, doc, ExtractLocals, SplitLocals, ResolveLocals, FetchLocals>>

\* one iteration of: for page_num in range(len(doc))
ExtractPage ==
    /\ call = "get_text_with_pages"
    /\ UNCHANGED failure
    /\ page_num < Len(pages)
    /\ LET page_text == pages[page_num + 1]
           start_char == Len(full_text)
           end_char == Len(full_text \o page_text)
       IN /\ full_text' = full_text \o page_text
          /\ page_map' = Append(page_map,
                <<start_char, WidenEndChar(start_char, end_char), page_num + 1>>)
    /\ page_num' = page_num + 1
    /\ UNCHANGED <<ServiceVars, pages, paginated, DriverLocals, call, doc, text, SplitLocals, ResolveLocals, FetchLocals>>

\* (variant: no except clause, the exception leaves the function)
ExtractPageRaises_propagates ==
    /\ call = "get_text_with_pages"
    /\ failure' = "read"
    /\ page_num < Len(pages)
    /\ call' = "raised in get_text_with_pages"
    /\ UNCHANGED <<ServiceVars, pages, paginated, DriverLocals, doc, text, ExtractLocals, SplitLocals, ResolveLocals,
                   FetchLocals>>

\* page.get_text() raises inside the loop: the except clause returns
\* get_text_from_file(filepath); no doc.close() lies on this path.
ExtractPageRaises ==
    /\ call = "get_text_with_pages"
    /\ failure' = "read"
    /\ page_num < Len(pages)
    /\ \E outcome \in TikaOutcomes : text' = get_text_from_file(outcome)
    /\ call' = "none"
    /\ UNCHANGED <<ServiceVars, pages, paginated, DriverLocals, doc, ExtractLocals, SplitLocals, ResolveLocals, FetchLocals>>

\* loop exhausted: doc.close(); return {'content': ..., 'page_map': ...}
ExtractReturn ==
    /\ call = "get_text_with_pages"
    /\ UNCHANGED failure
    /\ page_num = Len(pages)
    /\ doc' = "closed"
    /\ text' = [content |-> full_text, page_map |-> page_map, source |-> "pymupdf"]
    /\ call' = "none"
    /\ UNCHANGED <<ServiceVars, pages, paginated, DriverLocals, ExtractLocals, SplitLocals, ResolveLocals, FetchLocals>>

\* loop exhausted and the document closed, then count_tokens(full_text)
\* raises (tiktoken rejects the text, or the config cannot be loaded): the
\* except clause returns get_text_from_file(filepath)
ExtractCountRaises ==
    /\ call = "get_text_with_pages"
    /\ page_num = Len(pages)
    /\ failure' = "count"
    /\ doc' = "closed"
    /\ \E outcome \in TikaOutcomes : text' = get_text_from_file(outcome)
    /\ call' = "none"
    /\ UNCHANGED <<ServiceVars, pages, paginated, DriverLocals, ExtractLocals, SplitLocals, ResolveLocals, FetchLocals>>

\* if not filepath.lower().endswith('.pdf'): return get_text_from_file(filepath)
ExtractFlat ==
    /\ call = "none"
    /\ ~paginated
    /\ text.source = "none"
    /\ \E outcome \in TikaOutcomes :
          /\ text' = get_text_from_file(outcome)
          /\ failure' = IF outcome = "failed" THEN "read" ELSE "none"
    /\ UNCHANGED <<ServiceVars, pages, paginated, DriverLocals, call, doc, ExtractLocals, SplitLocals, ResolveLocals, FetchLocals>>

\* ------------------------------------------- FileManager.find_page_range
\* (variant: closed-interval test)
Overlaps_closed(cs, ce, entry) == cs <= entry[2] /\ ce >= entry[1]

\* (variant: the chunk must lie within the page)
Overlaps_within(cs, ce, entry) == cs >= entry[1] /\ ce <= entry[2]

\* if chunk_start < end_char and chunk_end > start_char
Overlaps(cs, ce, entry) == cs < entry[2] /\ ce > entry[1]

\* (variant: the end of the page counted as inside it)
Contains_closed(cs, entry) == cs >= entry[1] /\ cs <= entry[2]

\* if chunk_start >= start_char and chunk_start < end_char
Contains(cs, entry) == cs >= entry[1] /\ cs < entry[2]

\* distance from the chunk start to the entry
Distance(cs, entry) ==
    IF cs < entry[1] THEN entry[1] - cs
    ELSE IF cs >= entry[2] THEN cs - entry[2] + 1
    ELSE 0

\* (variant: the roles of start_page and end_page exchanged)
RECURSIVE OverlapScan_swapped(_, _, _, _, _)
OverlapScan_swapped(k, cs, ce, pm, acc) ==
    IF k > Len(pm) THEN acc
    ELSE IF cs < pm[k][2] /\ ce > pm[k][1]
         THEN OverlapScan_swapped(k + 1, cs, ce, pm,
                 [start_page |-> <<pm[k][3]>>,
                  end_page |-> IF acc.end_page = None
                               THEN <<pm[k][3]>> ELSE acc.end_page])
         ELSE OverlapScan_swapped(k + 1, cs, ce, pm, acc)

\* (variant: end_page is the page after the last overlapping page)
RECURSIVE OverlapScan_exclusive(_, _, _, _, _)
OverlapScan_exclusive(k, cs, ce, pm, acc) ==
    IF k > Len(pm) THEN acc
    ELSE IF cs < pm[k][2] /\ ce > pm[k][1]
         THEN OverlapScan_exclusive(k + 1, cs, ce, pm,
                 [start_page |-> IF acc.start_page = None
                                 THEN <<pm[k][3]>> ELSE acc.start_page,
                  end_page |-> <<pm[k][3] + 1>>])
         ELSE OverlapScan_exclusive(k + 1, cs, ce, pm, acc)

\* first loop: start_page is the first, end_page the last overlapping page
RECURSIVE OverlapScan(_, _, _, _, _)
OverlapScan(k, cs, ce, pm, acc) ==
    IF k > Len(pm) THEN acc
    ELSE IF Overlaps(cs, ce, pm[k])
         THEN OverlapScan(k + 1, cs, ce, pm,
                 [start_page |-> IF acc.start_page = None
                                 THEN <<pm[k][3]>> ELSE acc.start_page,
                  end_page |-> <<pm[k][3]>>])
         ELSE OverlapScan(k + 1, cs, ce, pm, acc)

\* second loop: the first entry containing chunk_start, then break
RECURSIVE ContainmentScan(_, _, _)
ContainmentScan(k, cs, pm) ==
    IF k > Len(pm) THEN None
    ELSE IF Contains(cs, pm[k]) THEN <<pm[k][3]>>
    ELSE ContainmentScan(k + 1, cs, pm)

\* (variant: the nearest entry is not looked for, the default page 1 stays)
RECURSIVE NearestScan_pageone(_, _, _, _)
NearestScan_pageone(k, cs, pm, acc) == acc.nearest_page

\* (variant: a distance equal to the minimum also replaces the candidate)
RECURSIVE NearestScan_lasttie(_, _, _, _)
NearestScan_lasttie(k, cs, pm, acc) ==
    IF k > Len(pm) THEN acc.nearest_page
    ELSE IF acc.min_distance = None \/ Distance(cs, pm[k]) <= acc.min_distance[1]
         THEN NearestScan_lasttie(k + 1, cs, pm,
                 [min_distance |-> <<Distance(cs, pm[k])>>,
                  nearest_page |-> pm[k][3]])
         ELSE NearestScan_lasttie(k + 1, cs, pm, acc)

\* third loop: min_distance = inf (None here), nearest_page = 1; a strictly
\* smaller distance replaces the candidate
RECURSIVE NearestScan(_, _, _, _)
NearestScan(k, cs, pm, acc) ==
    IF k > Len(pm) THEN acc.nearest_page
    ELSE IF acc.min_distance = None \/ Distance(cs, pm[k]) < acc.min_distance[1]
         THEN NearestScan(k + 1, cs, pm,
                 [min_distance |-> <<Distance(cs, pm[k])>>,
                  nearest_page |-> pm[k][3]])
         ELSE NearestScan(k + 1, cs, pm, acc)

\* Python's  x or 1  on an optional integer
OrOne(x) == IF x = None \/ x[1] = 0 THEN 1 ELSE x[1]

\* (variant: the checks on the inputs are skipped)
find_page_range_novalidate(cs, ce, pm) ==
    LET scan == OverlapScan(1, cs, ce, pm,
                    [start_page |-> None, end_page |-> None])
        n == NearestScan(1, cs, pm, [min_distance |-> None, nearest_page |-> 1])
    IN IF scan.start_page # None
       THEN [start_page |-> scan.start_page[1], end_page |-> scan.end_page[1]]
       ELSE [start_page |-> n, end_page |-> n]

find_page_range(cs, ce, pm) ==
    IF pm = <<>> THEN [start_page |-> 1, end_page |-> 1]
    ELSE IF cs >= ce THEN [start_page |-> 1, end_page |-> 1]
    ELSE LET scan == OverlapScan(1, cs, ce, pm,
                        [start_page |-> None, end_page |-> None])
             found == IF scan.start_page # None THEN scan
                      ELSE LET c == ContainmentScan(1, cs, pm)
                           IN IF c # None
                              THEN [start_page |-> c, end_page |-> c]
                              ELSE LET n == NearestScan(1, cs, pm,
                                              [min_distance |-> None,
                                               nearest_page |-> 1])
                                   IN [start_page |-> <<n>>, end_page |-> <<n>>]
         IN [start_page |-> OrOne(found.start_page),
             end_page |-> IF found.end_page # None /\ found.end_page[1] # 0
                          THEN found.end_page[1]
                          ELSE OrOne(found.start_page)]

\* the loop of find_page_range that produced the result
ResolvedBy(cs, ce, pm) ==
    IF pm = <<>> \/ cs >= ce THEN "validation"
    ELSE IF OverlapScan(1, cs, ce, pm,
                [start_page |-> None, end_page |-> None]).start_page # None
         THEN "overlap"
    ELSE IF ContainmentScan(1, cs, pm) # None THEN "containment"
    ELSE "nearest"

ExampleSpans == {<<5, 15>>, <<12, 18>>, <<25, 35>>, <<95, 105>>}
ChunkSpans == ((0..MaxSpan) \X (0..MaxSpan)) \cup ExampleSpans

\* filemanager.find_page_range(chunk_start, chunk_end, page_map) on the page
\* map that extraction returned (as debug_page_mapping calls it)
ResolveCall ==
    /\ call = "none"
    /\ failure' = "none"
    /\ text.source # "none"
    /\ \E span \in ChunkSpans :
          /\ chunk_start' = span[1]
          /\ chunk_end' = span[2]
          /\ page_map' = text.page_map
          /\ page_range' = find_page_range(span[1], span[2], text.page_map)
    /\ full_text' = <<>>
    /\ page_num' = 0
    /\ doc' = "none"
    /\ call' = "done"
    /\ UNCHANGED <<ServiceVars, pages, paginated, DriverLocals, text, SplitLocals, FetchLocals>>

\* ------------------------------------------------------- TokenTextSplitter
\* The tokenizer is a byte-pair encoding: a token is a piece of the text.
\* Here the vocabulary is the single characters and the merged pair "ab";
\* encoding is greedy from the left, decoding concatenates the pieces.
RECURSIVE Encode(_)
Encode(s) ==
    IF s = <<>> THEN <<>>
    ELSE IF Len(s) >= 2 /\ s[1] = "a" /\ s[2] = "b"
         THEN <<SubSeq(s, 1, 2)>> \o Encode(SubSeq(s, 3, Len(s)))
         ELSE <<SubSeq(s, 1, 1)>> \o Encode(Tail(s))

Decode(ids) == Concat(ids)

\* split_text_on_tokens: the windows <<start_idx, cur_idx>> over input_ids.
\*   while start_idx < len(input_ids):
\*       splits.append(decode(input_ids[start_idx:cur_idx]))
\*       if cur_idx == len(input_ids): break
\*       start_idx += tokens_per_chunk - chunk_overlap
\* (variant: the loop without the break, as older releases of the splitter)
RECURSIVE SplitWindows_nobreak(_, _, _, _)
SplitWindows_nobreak(n, start_idx, size, overlap) ==
    IF start_idx >= n THEN <<>>
    ELSE << <<start_idx, Min(start_idx + size, n)>> >>
            \o SplitWindows_nobreak(n, start_idx + size - overlap, size, overlap)

RECURSIVE SplitWindows(_, _, _, _)
SplitWindows(n, start_idx, size, overlap) ==
    IF start_idx >= n THEN <<>>
    ELSE LET cur_idx == Min(start_idx + size, n)
         IN IF cur_idx = n THEN << <<start_idx, cur_idx>> >>
            ELSE << <<start_idx, cur_idx>> >>
                    \o SplitWindows(n, start_idx + size - overlap, size, overlap)

\* splitter.split_text(content)
split_text(content, size, overlap) ==
    LET input_ids == Encode(content)
        w == SplitWindows(Len(input_ids), 0, size, overlap)
    IN [k \in 1..Len(w) |-> Decode(SubSeq(input_ids, w[k][1] + 1, w[k][2]))]

\* ---------------------------------------------- FileManager.text_splitter
\* chunk sizes and overlaps the splitter accepts and terminates on
SplitArgs == {sz \in (1..MaxChunkSize) \X (0..MaxChunkSize) : sz[2] < sz[1]}

\* content = text["content"]; page_map = text.get("page_map", []);
\* chunks = splitter.split_text(content); chunk_data = []; char_position = 0
SplitBegin ==
    /\ call = "none"
    /\ failure' = "none"
    /\ text.source # "none"
    /\ \E sz \in SplitArgs :
          /\ chunkSize' = sz[1]
          /\ chunkOverlap' = sz[2]
          /\ chunks' = split_text(text.content, sz[1], sz[2])
    /\ page_map' = text.page_map
    /\ full_text' = <<>>
    /\ page_num' = 0
    /\ chunk_data' = <<>>
    /\ char_position' = 0
    /\ i' = 0
    /\ doc' = "none"
    /\ call' = "text_splitter"
    /\ UNCHANGED <<ServiceVars, pages, paginated, DriverLocals, text, ResolveLocals, FetchLocals>>

\* (variant: the record keeps the chunk without its first character)
ChunkRecord_trimmed(chunk_text, pr) ==
    [content |-> IF chunk_text = <<>> THEN <<>> ELSE Tail(chunk_text),
     start_page |-> pr.start_page,
     end_page |-> pr.end_page]

\* {'content': chunk_text, 'start_page': ..., 'end_page': ...}
ChunkRecord(chunk_text, pr) ==
    [content |-> chunk_text,
     start_page |-> pr.start_page,
     end_page |-> pr.end_page]

\* (variant: the span end taken as the index of the last character)
ChunkEnd_lastchar(cs, chunk_text) == cs + Len(chunk_text) - 1

\* chunk_end = char_position + len(chunk_text)
ChunkEnd(cs, chunk_text) == cs + Len(chunk_text)

\* one iteration of: for i, chunk_text in enumerate(chunks)
SplitStep ==
    /\ call = "text_splitter"
    /\ UNCHANGED failure
    /\ i < Len(chunks)
    /\ LET chunk_text == chunks[i + 1]
           cs == char_position
           ce == ChunkEnd(cs, chunk_text)
           pr == IF page_map # <<>>
                 THEN find_page_range(cs, ce, page_map)
                 ELSE [start_page |-> 1, end_page |-> 1]
       IN /\ chunk_start' = cs
          /\ chunk_end' = ce
          /\ page_range' = pr
          /\ chunk_data' = Append(chunk_data, ChunkRecord(chunk_text, pr))
          /\ char_position' = ce
    /\ i' = i + 1
    /\ UNCHANGED <<ServiceVars, pages, paginated, DriverLocals, call, doc, text, full_text, page_map, page_num,
                   chunkSize, chunkOverlap, chunks, FetchLocals>>

\* return chunk_data
SplitReturn ==
    /\ call = "text_splitter"
    /\ UNCHANGED failure
    /\ i = Len(chunks)
    /\ call' = "done"
    /\ UNCHANGED <<ServiceVars, pages, paginated, DriverLocals, doc, text, ExtractLocals, SplitLocals, ResolveLocals,
                   FetchLocals>>

\* total_tokens = sum(count_tokens(chunk['content']) ...) raises: the
\* statement is outside any try, so the exception leaves text_splitter
SplitCountRaises ==
    /\ call = "text_splitter"
    /\ i = Len(chunks)
    /\ failure' = "count"
    /\ call' = "raised in text_splitter"
    /\ UNCHANGED <<ServiceVars, pages, paginated, DriverLocals, doc, text, ExtractLocals, SplitLocals, ResolveLocals,
                   FetchLocals>>

\* ------------------------------------------------ get_text_from_page_range
\* (variant: the 1-based page number used as the 0-based index)
FetchStartIdx_onebased(sp) == Max(0, sp)

\* start_idx = max(0, start_page - 1)
FetchStartIdx(sp) == Max(0, sp - 1)

\* (variant: the exclusive end taken as end_page - 1)
FetchEndIdx_minusone(n, ep) == Min(n, ep - 1)

\* end_idx = min(len(doc), end_page)
FetchEndIdx(n, ep) == Min(n, ep)

FetchArgs == (0 - 1)..MaxFetchArg

\* doc = pymupdf.open(filepath); the two range validations, each of which
\* closes the document and returns ""; otherwise the page loop is entered
FetchOpen ==
    /\ call = "none"
    /\ paginated
    /\ failure' = "none"
    /\ text.source \in {"none", "pymupdf"}
    /\ full_text' = <<>>
    /\ page_map' = <<>>
    /\ extracted_text' = <<>>
    /\ \E sp \in FetchArgs, ep \in FetchArgs :
          LET start_idx == FetchStartIdx(sp)
              e_idx == FetchEndIdx(Len(pages), ep)
          IN /\ start_page' = sp
             /\ end_page' = ep
             /\ end_idx' = e_idx
             /\ page_num' = start_idx
             /\ IF start_idx >= Len(pages) \/ e_idx <= start_idx
                THEN /\ doc' = "closed"
                     /\ fetched' = <<<<>>>>
                     /\ call' = "done"
                ELSE /\ doc' = "open"
                     /\ fetched' = None
                     /\ call' = "get_text_from_page_range"
    /\ UNCHANGED <<ServiceVars, pages, paginated, DriverLocals, text, SplitLocals, ResolveLocals>>

\* pymupdf.open raises: except -> return ""
FetchOpenFails ==
    /\ call = "none"
    /\ paginated
    /\ failure' = "open"
    /\ text.source \in {"none", "pymupdf"}
    /\ FreshExtract
    /\ start_page' \in FetchArgs
    /\ end_page' \in FetchArgs
    /\ doc' = "none"
    /\ fetched' = <<<<>>>>
    /\ call' = "done"
    /\ UNCHANGED <<ServiceVars, pages, paginated, DriverLocals, text, SplitLocals, ResolveLocals, end_idx, extracted_text>>

\* one iteration of: for page_num in range(start_idx, end_idx)
FetchPage ==
    /\ call = "get_text_from_page_range"
    /\ UNCHANGED failure
    /\ page_num < end_idx
    /\ extracted_text' = extracted_text \o pages[page_num + 1]
    /\ page_num' = page_num + 1
    /\ UNCHANGED <<ServiceVars, pages, paginated, DriverLocals, call, doc, text, full_text, page_map, SplitLocals,
                   ResolveLocals, start_page, end_page, end_idx, fetched>>

\* (variant: no except clause, the exception leaves the function)
FetchPageRaises_propagates ==
    /\ call = "get_text_from_page_range"
    /\ failure' = "read"
    /\ page_num < end_idx
    /\ call' = "raised in get_text_from_page_range"
    /\ UNCHANGED <<ServiceVars, pages, paginated, DriverLocals, doc, text, ExtractLocals, SplitLocals, ResolveLocals,
                   start_page, end_page, end_idx, extracted_text, fetched>>

\* page.get_text() raises inside the loop: except -> return ""; no
\* doc.close() lies on this path
FetchPageRaises ==
    /\ call = "get_text_from_page_range"
    /\ failure' = "read"
    /\ page_num < end_idx
    /\ fetched' = <<<<>>>>
    /\ call' = "done"
    /\ UNCHANGED <<ServiceVars, pages, paginated, DriverLocals, doc, text, ExtractLocals, SplitLocals, ResolveLocals,
                   start_page, end_page, end_idx, extracted_text>>

\* loop exhausted: doc.close(); return extracted_text
FetchReturn ==
    /\ call = "get_text_from_page_range"
    /\ UNCHANGED failure
    /\ page_num = end_idx
    /\ doc' = "closed"
    /\ fetched' = <<extracted_text>>
    /\ call' = "done"
    /\ UNCHANGED <<ServiceVars, pages, paginated, DriverLocals, text, ExtractLocals, SplitLocals, ResolveLocals,
                   start_page, end_page, end_idx, extracted_text>>

\* loop exhausted and the document closed, then count_tokens(extracted_text)
\* raises: except -> return ""
FetchCountRaises ==
    /\ call = "get_text_from_page_range"
    /\ page_num = end_idx
    /\ failure' = "count"
    /\ doc' = "closed"
    /\ fetched' = <<<<>>>>
    /\ call' = "done"
    /\ UNCHANGED <<ServiceVars, pages, paginated, DriverLocals, text, ExtractLocals, SplitLocals, ResolveLocals,
                   start_page, end_page, end_idx, extracted_text>>

\* if not filepath.lower().endswith('.pdf'):
\*     result = get_text_from_file(filepath); return result.get('content', '')
FetchFlat ==
    /\ call = "none"
    /\ ~paginated
    /\ FreshExtract
    /\ start_page' \in FetchArgs
    /\ end_page' \in FetchArgs
    /\ \E outcome \in TikaOutcomes :
          /\ fetched' = <<get_text_from_file(outcome).content>>
          /\ failure' = IF outcome = "failed" THEN "read" ELSE "none"
    /\ call' = "done"
    /\ UNCHANGED <<ServiceVars, pages, paginated, DriverLocals, doc, text, SplitLocals, ResolveLocals, end_idx,
                   extracted_text>>

\* A file that is not a PDF has no pages: its text is one piece.
FlatDocs == {<<t>> : t \in PageTexts}

\* Nothing has been called yet on the document.
InitOn(documents) ==
    /\ ServicesIdle
    /\ pages \in documents
    /\ paginated = TRUE
    /\ failure = "none"
    /\ call = "none"
    /\ doc = "none"
    /\ full_text = <<>>
    /\ page_map = <<>>
    /\ page_num = 0
    /\ text = NoText
    /\ chunkSize = 0
    /\ chunkOverlap = 0
    /\ chunks = <<>>
    /\ i = 0
    /\ char_position = 0
    /\ chunk_start = 0
    /\ chunk_end = 0
    /\ page_range = NoRange
    /\ chunk_data = <<>>
    /\ start_page = 0
    /\ end_page = 0
    /\ end_idx = 0
    /\ extracted_text = <<>>
    /\ fetched = None
    /\ DriverIdle

\* Nothing has been called yet on the flat file.
InitFlat ==
    /\ ServicesIdle
    /\ pages \in FlatDocs
    /\ paginated = FALSE
    /\ failure = "none"
    /\ call = "none"
    /\ doc = "none"
    /\ full_text = <<>>
    /\ page_map = <<>>
    /\ page_num = 0
    /\ text = NoText
    /\ chunkSize = 0
    /\ chunkOverlap = 0
    /\ chunks = <<>>
    /\ i = 0
    /\ char_position = 0
    /\ chunk_start = 0
    /\ chunk_end = 0
    /\ page_range = NoRange
    /\ chunk_data = <<>>
    /\ start_page = 0
    /\ end_page = 0
    /\ end_idx = 0
    /\ extracted_text = <<>>
    /\ fetched = None
    /\ DriverIdle

Init == InitOn(Docs) \/ InitFlat

Next ==
    \/ ExtractOpen
    \/ ExtractOpenFails
    \/ ExtractPage
    \/ ExtractPageRaises
    \/ ExtractReturn
    \/ ExtractCountRaises
    \/ ExtractFlat
    \/ ResolveCall
    \/ SplitBegin
    \/ SplitStep
    \/ SplitReturn
    \/ SplitCountRaises
    \/ FetchOpen
    \/ FetchOpenFails
    \/ FetchPage
    \/ FetchPageRaises
    \/ FetchReturn
    \/ FetchCountRaises
    \/ FetchFlat

Spec == Init /\ [][Next]_vars

\* ------------------------------------- extraction and resolution of a span
\* get_text_with_pages followed by find_page_range on its page map, for the
\* documents with a 100-character first page and an empty second page.
InitScenario == InitOn(ScenarioDocs)

NextScenario ==
    \/ ExtractOpen
    \/ ExtractOpenFails
    \/ ExtractPage
    \/ ExtractPageRaises
    \/ ExtractReturn
    \/ ResolveCall

SpecScenario == InitScenario /\ [][NextScenario]_vars

\* --------------------------------------------------- the resolver on its own
\* find_page_range called with a page map supplied by the caller: any char
\* ranges, page numbers 1..n in order.
MapRanges == (0..MaxMapChar) \X (0..MaxMapChar)

P4Map == << <<0, 10, 1>>, <<10, 20, 2>>, <<20, 30, 3>> >>

CallerPageMaps ==
    {[k \in 1..Len(r) |-> <<r[k][1], r[k][2], k>>] :
        r \in UNION {[1..n -> MapRanges] : n \in 0..MaxMapEntries}}
    \cup {P4Map}

InitResolve ==
    /\ ServicesIdle
    /\ pages = <<>>
    /\ paginated = TRUE
    /\ failure = "none"
    /\ call = "none"
    /\ doc = "none"
    /\ full_text = <<>>
    /\ page_map = <<>>
    /\ page_num = 0
    /\ \E pm \in CallerPageMaps :
          text = [content |-> <<>>, page_map |-> pm, source |-> "caller"]
    /\ chunkSize = 0
    /\ chunkOverlap = 0
    /\ chunks = <<>>
    /\ i = 0
    /\ char_position = 0
    /\ chunk_start = 0
    /\ chunk_end = 0
    /\ page_range = NoRange
    /\ chunk_data = <<>>
    /\ start_page = 0
    /\ end_page = 0
    /\ end_idx = 0
    /\ extracted_text = <<>>
    /\ fetched = None
    /\ DriverIdle

NextResolve == ResolveCall

SpecResolve == InitResolve /\ [][NextResolve]_vars
\* ------------------------------------- embedding_test and _process_pdfs
\* The ingestion drivers (main.embedding_test and the PDF processor window's
\* _process_pdfs) run the same loop over the discovered files and, for each
\* file, over the chunks text_splitter returned.
\* A string is a sequence of characters.
DigitChar(d) == <<"0", "1", "2", "3", "4", "5", "6", "7", "8", "9">>[d + 1]

\* str(n) for n >= 0
RECURSIVE str(_)
str(n) == IF n < 10 THEN <<DigitChar(n)>> ELSE str(n \div 10) \o <<DigitChar(n % 10)>>

\* (variant: the range form also when start_page == end_page)
PageRangeStr_alwaysrange(s, e) == str(s) \o <<"-">> \o str(e)

\* f"{start_page}-{end_page}" if start_page != end_page else str(start_page)
PageRangeStr(s, e) == IF s # e THEN str(s) \o <<"-">> \o str(e) ELSE str(s)

\* payload = {"source": ..., "chunk_index": ..., "start_page": ...,
\*            "end_page": ..., "page_range": ..., "total_chunks": ..., ...}
Payload(source, global_chunk_index, chunk, total_chunks) ==
    [source |-> source,
     chunk_index |-> global_chunk_index,
     start_page |-> chunk.start_page,
     end_page |-> chunk.end_page,
     page_range |-> PageRangeStr(chunk.start_page, chunk.end_page),
     total_chunks |-> total_chunks]

\* embedding_agent.get_embeddings(chunk['content']): the vector of that text
Embedding(content) == [vector_of |-> content]

\* (variant: the index inside the batch)
GlobalChunkIndex_local(start, k) == k

\* global_chunk_index = batch_start + i
GlobalChunkIndex(start, k) == start + k

Drivers == {"embedding_test", "_process_pdfs"}

\* The key of a file in the processed-files map.  embedding_test uses
\* f"{filepath}/{file.name}" (the folder given to the run and the bare file
\* name); _process_pdfs uses the file's path relative to the project.
FileKeyOf(d, file) ==
    IF d = "embedding_test" THEN <<file.name>> ELSE <<file.dir, file.name>>

FileKey(file) == FileKeyOf(driver, file)

\* the file the loop is at
CurrentFile == files[file_idx + 1]

\* embedding_test tests  filename_str in processed_files_data  when it reaches
\* the file; _process_pdfs filters the files by the loaded map before its loop
AlreadyProcessed(file) ==
    IF driver = "embedding_test"
    THEN FileKey(file) \in processed_files_data
    ELSE FileKey(file) \in loaded

\* the loop leaves the current file behind
LeaveFile(outcome) ==
    /\ visited' = Append(visited, [file |-> file_idx + 1, outcome |-> outcome])
    /\ file_idx' = file_idx + 1

\* the file is already in the processed-files map: skipped
DriverSkipProcessed ==
    /\ call = "run"
    /\ file_idx < Len(files)
    /\ AlreadyProcessed(CurrentFile)
    /\ LeaveFile("already processed")
    /\ UNCHANGED <<ServiceVars, pages, paginated, failure, call, doc, text, ExtractLocals, SplitLocals,
                   ResolveLocals, FetchLocals, RunLocals, processed_files_data,
                   file_chunks, batch_start, uploaded>>

\* get_text_with_pages returned no content (the file has none, or both
\* extractors failed): if not file_text.get('content'): continue
DriverSkipEmpty ==
    /\ call = "run"
    /\ file_idx < Len(files)
    /\ ~AlreadyProcessed(CurrentFile)
    /\ LeaveFile("no content")
    /\ UNCHANGED <<ServiceVars, pages, paginated, failure, call, doc, text, ExtractLocals, SplitLocals,
                   ResolveLocals, FetchLocals, RunLocals, processed_files_data,
                   file_chunks, batch_start, uploaded>>

\* text_splitter raises on the extracted text: except Exception -> continue
DriverSplitRaises ==
    /\ call = "run"
    /\ file_idx < Len(files)
    /\ ~AlreadyProcessed(CurrentFile)
    /\ CurrentFile.chunks # <<>>
    /\ LeaveFile("raised")
    /\ UNCHANGED <<ServiceVars, pages, paginated, failure, call, doc, text, ExtractLocals, SplitLocals,
                   ResolveLocals, FetchLocals, RunLocals, processed_files_data,
                   file_chunks, batch_start, uploaded>>

\* file_chunks = filemanager.text_splitter(file_text) has returned;
\* total_chunks = len(file_chunks); the batch loop starts at 0
DriverBegin ==
    /\ call = "run"
    /\ file_idx < Len(files)
    /\ ~AlreadyProcessed(CurrentFile)
    /\ CurrentFile.chunks # <<>>
    /\ file_chunks' = CurrentFile.chunks
    /\ batch_start' = 0
    /\ call' = "batches"
    /\ UNCHANGED <<ServiceVars, pages, paginated, failure, doc, text, ExtractLocals, SplitLocals,
                   ResolveLocals, FetchLocals, RunLocals, processed_files_data,
                   file_idx, visited, uploaded>>

\* one iteration of: for batch_start in range(0, total_chunks, batch_size),
\* with every embedding and the upload succeeding
DriverBatch ==
    /\ call = "batches"
    /\ batch_start < Len(file_chunks)
    /\ LET total_chunks == Len(file_chunks)
           batch_end == Min(batch_start + batch_size, total_chunks)
           current_batch == SubSeq(file_chunks, batch_start + 1, batch_end)
           embeddings == [k \in 1..Len(current_batch) |->
                             Embedding(current_batch[k].content)]
           payloads == [k \in 1..Len(current_batch) |->
                           Payload(CurrentFile.name,
                                   GlobalChunkIndex(batch_start, k - 1),
                                   current_batch[k], total_chunks)]
       IN uploaded' = Append(uploaded, [file |-> file_idx + 1,
                                        embeddings |-> embeddings,
                                        metadatas |-> payloads])
    /\ batch_start' = batch_start + batch_size
    /\ UNCHANGED <<ServiceVars, pages, paginated, failure, call, doc, text, ExtractLocals, SplitLocals,
                   ResolveLocals, FetchLocals, RunLocals, processed_files_data,
                   file_idx, visited, file_chunks>>

\* (variant: no except clause around the file, the exception ends the run)
DriverBatchRaises_propagates ==
    /\ call = "batches"
    /\ batch_start < Len(file_chunks)
    /\ call' = "raised in the driver"
    /\ UNCHANGED <<ServiceVars, pages, paginated, failure, doc, text, ExtractLocals, SplitLocals,
                   ResolveLocals, FetchLocals, DriverLocals>>

\* get_embeddings or add_embeddings_batch raises in the batch: except
\* Exception -> continue with the next file, the file is not marked
DriverBatchRaises ==
    /\ call = "batches"
    /\ batch_start < Len(file_chunks)
    /\ LeaveFile("raised")
    /\ call' = "run"
    /\ UNCHANGED <<ServiceVars, pages, paginated, failure, doc, text, ExtractLocals, SplitLocals,
                   ResolveLocals, FetchLocals, RunLocals, processed_files_data,
                   file_chunks, batch_start, uploaded>>

\* the batch loop is exhausted: processed_files_data[key] = True; save_to_json
DriverDone ==
    /\ call = "batches"
    /\ batch_start >= Len(file_chunks)
    /\ processed_files_data' = processed_files_data \cup {FileKey(CurrentFile)}
    /\ LeaveFile("processed")
    /\ call' = "run"
    /\ UNCHANGED <<ServiceVars, pages, paginated, failure, doc, text, ExtractLocals, SplitLocals,
                   ResolveLocals, FetchLocals, RunLocals, file_chunks, batch_start,
                   uploaded>>

\* for file in files: is exhausted
DriverFinish ==
    /\ call = "run"
    /\ file_idx = Len(files)
    /\ call' = "finished"
    /\ UNCHANGED <<ServiceVars, pages, paginated, failure, doc, text, ExtractLocals, SplitLocals,
                   ResolveLocals, FetchLocals, DriverLocals>>

NextIngest ==
    \/ DriverSkipProcessed
    \/ DriverSkipEmpty
    \/ DriverSplitRaises
    \/ DriverBegin
    \/ DriverBatch
    \/ DriverBatchRaises
    \/ DriverDone
    \/ DriverFinish

\* Nothing of the text pipeline is in a call while a driver runs.
PipelineIdle ==
    /\ pages = <<>>
    /\ paginated = TRUE
    /\ failure = "none"
    /\ doc = "none"
    /\ full_text = <<>>
    /\ page_map = <<>>
    /\ page_num = 0
    /\ text = NoText
    /\ chunkSize = 0
    /\ chunkOverlap = 0
    /\ chunks = <<>>
    /\ i = 0
    /\ char_position = 0
    /\ chunk_start = 0
    /\ chunk_end = 0
    /\ page_range = NoRange
    /\ chunk_data = <<>>
    /\ start_page = 0
    /\ end_page = 0
    /\ end_idx = 0
    /\ extracted_text = <<>>
    /\ fetched = None

\* neither the text pipeline nor a driver has been called
IngestionIdle == PipelineIdle /\ call = "none" /\ DriverIdle

\* the run begins: processed_files_data = load_from_json(), first file next
RunBegins ==
    /\ call = "run"
    /\ processed_files_data = loaded
    /\ file_idx = 0
    /\ visited = <<>>
    /\ file_chunks = <<>>
    /\ batch_size \in 1..MaxBatchSize
    /\ batch_start = 0
    /\ uploaded = <<>>

\* Chunk records as text_splitter returns them for longer documents: page
\* numbers of one and of two digits, start_page <= end_page, start_page not
\* decreasing along the sequence; neighbouring chunks have different texts.
IngestPages == {1, 2} \cup (10..MaxIngestPage)

IngestRanges == {q \in IngestPages \X IngestPages : q[1] <= q[2]}

IngestChunkLists ==
    {[k \in 1..Len(r) |->
        ChunkRecord(IF k % 2 = 1 THEN <<"a">> ELSE <<"b">>,
                    [start_page |-> r[k][1], end_page |-> r[k][2]])] :
        r \in {q \in UNION {[1..n -> IngestRanges] : n \in 1..MaxIngestChunks} :
                  \A k \in 1..(Len(q) - 1) : q[k + 1][1] >= q[k][1]}}

\* a run over one file, which an earlier run may have recorded
InitIngest ==
    /\ ServicesIdle
    /\ PipelineIdle
    /\ driver \in Drivers
    /\ \E cl \in IngestChunkLists :
          files = <<[dir |-> "a", name |-> "x", chunks |-> cl]>>
    /\ loaded \in SUBSET {FileKeyOf(driver, files[1])}
    /\ RunBegins

SpecIngest == InitIngest /\ [][NextIngest]_vars

\* ------------------------------------------------- runs over several files
\* Files in up to two folders under the base directory (find_files searches
\* recursively); a file yields no chunk or MaxIngestChunks chunks of page 1.

RunChunks ==
    [k \in 1..MaxIngestChunks |->
        ChunkRecord(IF k % 2 = 1 THEN <<"a">> ELSE <<"b">>,
                    [start_page |-> 1, end_page |-> 1])]

RunFiles ==
    {[dir |-> d, name |-> n, chunks |-> c] :
        d \in {"a", "b"}, n \in {"x", "y"}, c \in {<<>>, RunChunks}}

\* lists of files with different paths
RunFileLists ==
    {fl \in UNION {[1..n -> RunFiles] : n \in 0..MaxFiles} :
        \A j, k \in 1..Len(fl) :
            j # k => <<fl[j].dir, fl[j].name>> # <<fl[k].dir, fl[k].name>>}

\* a run over the files, some of which earlier runs of the same driver recorded
InitRun ==
    /\ ServicesIdle
    /\ PipelineIdle
    /\ driver \in Drivers
    /\ files \in RunFileLists
    /\ loaded \in SUBSET {FileKeyOf(driver, files[k]) : k \in 1..Len(files)}
    /\ RunBegins

SpecRun == InitRun /\ [][NextIngest]_vars

\* the loops of a run are executed without pause
SpecRunFair == SpecRun /\ WF_vars(NextIngest)

\* ------------------------------------------------------ ClientCacheManager
SourceFiles == {"b.pdf", "c.pdf"}
Clients == {"gpt-4.1", "o4-mini"}

\* What callers pass as cache_type: the supported subclass, the base class
\* (a CacheEntry type without a directory), and a value that is not a type.
CacheTypes == {"SummaryCacheEntry", "CacheEntry", "None"}

\* cache_key = f"{source_file}#{client}"
CacheKey(source_file, client) == source_file \o "#" \o client

\* int(hashlib.md5(cache_key.encode()).hexdigest(), 16) % 50 for these keys
compute_partition_index(cache_key) ==
    CASE cache_key = "b.pdf#gpt-4.1" -> 46
      [] cache_key = "c.pdf#gpt-4.1" -> 46
      [] cache_key = "b.pdf#o4-mini" -> 42
      [] cache_key = "c.pdf#o4-mini" -> 32

\* f"{base_name}.part_{partition_index:02d}.json"
build_partition_filename(base_name, partition_index) ==
    [base_name |-> base_name, part |-> partition_index]

\* <<str(Path(base_dir) / filename)>>, or <<>> when the validation raises
get_partition_path(cache_key, base_dir, base_name) ==
    IF cache_key = "" \/ base_dir = None \/ base_dir[1] = "" \/ base_name = ""
    THEN <<>>
    ELSE <<[dir |-> base_dir[1],
            filename |-> build_partition_filename(
                             base_name, compute_partition_index(cache_key))]>>

\* the directory of a cache type: only SummaryCacheEntry has one, and only
\* when the configuration names it
get_cache_directory(cache_type) ==
    IF cache_type = "SummaryCacheEntry" THEN cache_paths ELSE None

\* cache_type.__name__.lower(); a value that is not a type has no __name__
BaseName(cache_type) ==
    IF cache_type = "SummaryCacheEntry" THEN "summarycacheentry" ELSE "cacheentry"

\* the partition files the keys above are stored in
CacheFilePaths ==
    {get_partition_path(k, <<"summary_cache">>, BaseName("SummaryCacheEntry"))[1] :
        k \in {CacheKey(s, c) : s \in SourceFiles, c \in Clients}}

MissingFile == [kind |-> "missing", data |-> <<>>]

\* load_from_json(filepath): {} for a missing file and for one that is not JSON
cache_load_from_json(filepath) ==
    IF cache_files[filepath].kind = "json"
    THEN cache_files[filepath].data
    ELSE <<>>

\* cache_data[cache_key] = data_dict
DictPut(d, key, value) ==
    [k \in DOMAIN d \cup {key} |-> IF k = key THEN value ELSE d[k]]

\* What get_cached_entry(client, source_file, cache_type) ends with. A stored
\* entry carries whether cache_type.from_dict accepts it (intact).
GetCachedEntryResult(client, source_file, cache_type) ==
    LET cache_key == CacheKey(source_file, client)
        base_dir == get_cache_directory(cache_type)
    IN  IF cache_type = "None"
        THEN [status |-> "raised", value |-> <<"AttributeError">>]
        ELSE LET cache_path == get_partition_path(cache_key, base_dir,
                                                  BaseName(cache_type))
             IN  IF cache_path = <<>>
                 THEN [status |-> "raised", value |-> <<"ValueError">>]
                 ELSE LET cache_data == cache_load_from_json(cache_path[1])
                      IN  IF cache_key \in DOMAIN cache_data
                          THEN IF cache_data[cache_key].intact
                               THEN [status |-> "returned",
                                     value |-> <<[source_file |-> source_file,
                                                  client |-> client]>>]
                               ELSE [status |-> "returned", value |-> None]
                          ELSE [status |-> "returned", value |-> None]

get_cached_entry ==
    \E client \in Clients, source_file \in SourceFiles, cache_type \in CacheTypes :
        /\ cache_call' = [op |-> "get_cached_entry", client |-> client,
                          source_file |-> source_file, cache_type |-> cache_type]
        /\ cache_result' = GetCachedEntryResult(client, source_file, cache_type)
        /\ UNCHANGED <<cache_paths, cache_files, IngestionVars, QdrantVars, ScannerVars, ChatVars>>

\* cache_entry(data) for an entry of a CacheEntry subclass
cache_entry ==
    \E client \in Clients, source_file \in SourceFiles,
       cache_type \in CacheTypes \ {"None"} :
        LET cache_key == CacheKey(source_file, client)
            cache_path == get_partition_path(
                              cache_key, get_cache_directory(cache_type),
                              BaseName(cache_type))
        IN  /\ cache_call' = [op |-> "cache_entry", client |-> client,
                              source_file |-> source_file,
                              cache_type |-> cache_type]
            /\ IF cache_path = <<>>
               THEN /\ cache_result' = [status |-> "raised", value |-> <<"ValueError">>]
                    /\ UNCHANGED cache_files
               ELSE /\ cache_result' = [status |-> "returned", value |-> None]
                    /\ cache_files' =
                           [cache_files EXCEPT ![cache_path[1]] =
                               [kind |-> "json",
                                data |-> DictPut(
                                    cache_load_from_json(cache_path[1]),
                                    cache_key,
                                    [source_file |-> source_file,
                                     client |-> client, intact |-> TRUE])]]
            /\ UNCHANGED <<cache_paths, IngestionVars, QdrantVars, ScannerVars, ChatVars>>

\* Storage conditions: a partition file is deleted, is overwritten with
\* something that is not JSON, or holds an entry written in another layout.
PartitionDeleted ==
    \E p \in DOMAIN cache_files :
        /\ cache_files[p] # MissingFile
        /\ cache_files' = [cache_files EXCEPT ![p] = MissingFile]
        /\ UNCHANGED <<cache_paths, cache_call, cache_result, IngestionVars, QdrantVars, ScannerVars, ChatVars>>

PartitionCorrupted ==
    \E p \in DOMAIN cache_files :
        /\ cache_files[p].kind = "json"
        /\ cache_files' = [cache_files EXCEPT ![p] = [kind |-> "corrupt", data |-> <<>>]]
        /\ UNCHANGED <<cache_paths, cache_call, cache_result, IngestionVars, QdrantVars, ScannerVars, ChatVars>>

EntryDamaged ==
    \E p \in DOMAIN cache_files :
        /\ cache_files[p].kind = "json"
        /\ \E k \in DOMAIN cache_files[p].data :
              /\ cache_files[p].data[k].intact
              /\ cache_files' =
                     [cache_files EXCEPT ![p].data[k].intact = FALSE]
        /\ UNCHANGED <<cache_paths, cache_call, cache_result, IngestionVars, QdrantVars, ScannerVars, ChatVars>>

NextCache ==
    \/ get_cached_entry
    \/ cache_entry
    \/ PartitionDeleted
    \/ PartitionCorrupted
    \/ EntryDamaged

\* A cache manager whose configuration names the summary directory or not;
\* no partition file exists yet.
InitCache ==
    /\ IngestionIdle
    /\ cache_paths \in {None, <<"summary_cache">>}
    /\ cache_files = [p \in CacheFilePaths |-> MissingFile]
    /\ cache_call = [op |-> "none"]
    /\ cache_result = [status |-> "none", value |-> None]
    /\ QdrantIdle /\ ScannerIdle /\ ChatIdle

SpecCache == InitCache /\ [][NextCache]_vars

\* ------------------------------------------- QdrantManager.add_embeddings_batch
\* for attempt in range(3)
MaxAttempts == 3

\* batch_end = min(batch_start + max_batch_size, total_points)
SubBatchEnd(start) ==
    IF start + max_batch_size < total_points
    THEN start + max_batch_size
    ELSE total_points

\* the points of the current sub-batch were sent with this outcome
Upsert(outcome) ==
    [batch_start |-> sub_batch_start, batch_end |-> SubBatchEnd(sub_batch_start),
     attempt |-> attempt, outcome |-> outcome]

\* the sub-batch loop has a sub-batch to send
InSubBatch == upload = "running" /\ sub_batch_start < total_points

\* a failed upsert is tried again: except ResponseHandlingException with
\* attempt < 2, every other exception is raised again
Retried_anyerror(error) == attempt < MaxAttempts - 1
Retried(error) == error = "ResponseHandlingException" /\ attempt < MaxAttempts - 1

\* self.client.upsert(...) returns; break, on to the next sub-batch
UpsertSucceeds ==
    /\ InSubBatch
    /\ upserts' = Append(upserts, Upsert("ok"))
    /\ sub_batch_start' = sub_batch_start + max_batch_size
    /\ attempt' = 0
    /\ UNCHANGED <<total_points, max_batch_size, upload, IngestionVars, CacheVars, ScannerVars, ChatVars>>

\* self.client.upsert(...) raises and the loop goes round again
UpsertRetried ==
    /\ InSubBatch
    /\ \E error \in {"ResponseHandlingException", "Exception"} :
          /\ Retried(error)
          /\ upserts' = Append(upserts, Upsert(error))
    /\ attempt' = attempt + 1
    /\ UNCHANGED <<total_points, max_batch_size, sub_batch_start, upload,
                   IngestionVars, CacheVars, ScannerVars, ChatVars>>

\* self.client.upsert(...) raises and the exception leaves the call
UpsertRaises ==
    /\ InSubBatch
    /\ \E error \in {"ResponseHandlingException", "Exception"} :
          /\ ~Retried(error)
          /\ upserts' = Append(upserts, Upsert(error))
    /\ upload' = "raised"
    /\ UNCHANGED <<total_points, max_batch_size, sub_batch_start, attempt,
                   IngestionVars, CacheVars, ScannerVars, ChatVars>>

\* the range of sub-batches is exhausted
UploadReturns ==
    /\ upload = "running"
    /\ sub_batch_start >= total_points
    /\ upload' = "returned"
    /\ UNCHANGED <<total_points, max_batch_size, sub_batch_start, attempt,
                   upserts, IngestionVars, CacheVars, ScannerVars, ChatVars>>

NextQdrant ==
    \/ UpsertSucceeds
    \/ UpsertRetried
    \/ UpsertRaises
    \/ UploadReturns

\* add_embeddings_batch is entered with as many metadatas as embeddings and
\* a positive max_batch_size.
InitQdrant ==
    /\ IngestionIdle
    /\ CacheIdle /\ ScannerIdle /\ ChatIdle
    /\ total_points \in 0..MaxPoints
    /\ max_batch_size \in 1..MaxSubBatch
    /\ sub_batch_start = 0
    /\ attempt = 0
    /\ upserts = <<>>
    /\ upload = "running"

SpecQdrant == InitQdrant /\ [][NextQdrant]_vars

\* ------------------------------------------------- scanner path detection
\* A path is its components and whether it is absolute; EmptyPath is ''.
AbsPath(parts) == [abs |-> TRUE, parts |-> parts]

\* os.path.normpath: empty and "." components go
normpath(path) ==
    [path EXCEPT !.parts = SelectSeq(path.parts, LAMBDA c : c \notin {"", "."})]

\* os.path.join(root, filepath): an absolute filepath discards the root
join(root, filepath) ==
    IF filepath.abs THEN filepath
    ELSE [abs |-> root.abs, parts |-> root.parts \o filepath.parts]

\* os.path.basename(os.path.normpath(base_path)) and the folder above it
project_folder(base) ==
    LET p == normpath(base).parts
    IN  IF Len(p) >= 1 THEN p[Len(p)] ELSE ""

parent_folder(base) ==
    LET p == normpath(base).parts
    IN  IF Len(p) >= 2 THEN p[Len(p) - 1] ELSE ""

DriveLetters == <<"S:", "F:", "Z:", "X:">>

\* ['S', 'F', 'Z', 'X'], two paths per letter
DrivePaths(base) ==
    [k \in 1..(2 * Len(DriveLetters)) |->
        IF k % 2 = 1
        THEN AbsPath(<<DriveLetters[(k + 1) \div 2], "scanner", "scan",
                       parent_folder(base), project_folder(base)>>)
        ELSE AbsPath(<<DriveLetters[k \div 2], "scan",
                       parent_folder(base), project_folder(base)>>)]

\* possible_paths, in the order they are tested
possible_paths(base, drive) ==
    <<base,
      AbsPath(<<"192.168.1.20", "scanner", "scan",
                parent_folder(base), project_folder(base)>>),
      AbsPath(<<"192.168.1.20", "scanner",
                parent_folder(base), project_folder(base)>>)>>
    \o (IF drive # ""
        THEN <<AbsPath(<<drive, "scan",
                         parent_folder(base), project_folder(base)>>),
               AbsPath(<<drive, "scanner", "scan",
                         parent_folder(base), project_folder(base)>>)>>
        ELSE <<>>)
    \o DrivePaths(base)

\* the first tested path that exists and is readable, or ''
FirstAccessible(paths) ==
    LET hits == {k \in 1..Len(paths) : normpath(paths[k]) \in accessible}
    IN  IF hits = {} THEN EmptyPath
        ELSE normpath(paths[CHOOSE k \in hits : \A j \in hits : k <= j])

\* find_accessible_scanner_path(): what it returns, what it leaves in the
\* cache, and whether it tested the paths
FindAccessible ==
    IF accessible_scanner_path_cache # None
    THEN [result |-> accessible_scanner_path_cache[1],
          cache |-> accessible_scanner_path_cache, probed |-> FALSE]
    ELSE IF ~ENABLE_SCANNER_DETECTION
    THEN [result |-> EmptyPath, cache |-> <<EmptyPath>>, probed |-> FALSE]
    ELSE IF normpath(base_path).parts = <<>>
    THEN [result |-> EmptyPath, cache |-> <<EmptyPath>>, probed |-> FALSE]
    ELSE LET found == FirstAccessible(possible_paths(base_path, detected_drive))
         IN  [result |-> found, cache |-> <<found>>, probed |-> TRUE]

ScannerCall(op, arg, result, probed) ==
    [op |-> op, arg |-> arg, result |-> result, probed |-> probed]

find_accessible_scanner_path ==
    /\ Len(scanner_calls) < MaxScannerCalls
    /\ accessible_scanner_path_cache' = FindAccessible.cache
    /\ scanner_calls' =
           Append(scanner_calls,
                  ScannerCall("find_accessible_scanner_path", <<>>,
                              <<FindAccessible.result>>, FindAccessible.probed))
    /\ UNCHANGED <<ENABLE_SCANNER_DETECTION, base_path, detected_drive,
                   accessible, IngestionVars, CacheVars, QdrantVars, ChatVars>>

clear_scanner_path_cache ==
    /\ Len(scanner_calls) < MaxScannerCalls
    /\ accessible_scanner_path_cache' = None
    /\ scanner_calls' =
           Append(scanner_calls,
                  ScannerCall("clear_scanner_path_cache", <<>>, <<>>, FALSE))
    /\ UNCHANGED <<ENABLE_SCANNER_DETECTION, base_path, detected_drive,
                   accessible, IngestionVars, CacheVars, QdrantVars, ChatVars>>

\* set_scanner_detection(enabled) without the cache reset
CacheAfterSet_kept == accessible_scanner_path_cache
\* set_scanner_detection(enabled): _accessible_scanner_path_cache = None
CacheAfterSet == None

set_scanner_detection ==
    /\ Len(scanner_calls) < MaxScannerCalls
    /\ \E enabled \in BOOLEAN :
          /\ ENABLE_SCANNER_DETECTION' = enabled
          /\ scanner_calls' =
                 Append(scanner_calls,
                        ScannerCall("set_scanner_detection", <<enabled>>,
                                    <<>>, FALSE))
    /\ accessible_scanner_path_cache' = CacheAfterSet
    /\ UNCHANGED <<base_path, detected_drive, accessible, IngestionVars, CacheVars, QdrantVars, ChatVars>>

resolve_file_path ==
    /\ Len(scanner_calls) < MaxScannerCalls
    /\ \E filepath \in {[abs |-> FALSE, parts |-> <<"case", "doc.pdf">>],
                       AbsPath(<<"srv", "doc.pdf">>)} :
          LET root_path == FindAccessible.result
          IN  scanner_calls' =
                  Append(scanner_calls,
                         ScannerCall("resolve_file_path", <<filepath>>,
                                     <<IF root_path # EmptyPath
                                       THEN join(normpath(root_path), filepath)
                                       ELSE filepath>>,
                                     FindAccessible.probed))
    /\ accessible_scanner_path_cache' = FindAccessible.cache
    /\ UNCHANGED <<ENABLE_SCANNER_DETECTION, base_path, detected_drive,
                   accessible, IngestionVars, CacheVars, QdrantVars, ChatVars>>

\* the configured root, written with a trailing separator
ConfiguredRoot == AbsPath(<<"S:", "JustinPinter", "Legal_Notebook", "">>)

\* the places where the project folder can turn up on this machine
ReachablePaths ==
    {normpath(ConfiguredRoot),
     AbsPath(<<"192.168.1.20", "scanner", "JustinPinter", "Legal_Notebook">>),
     AbsPath(<<"F:", "scan", "JustinPinter", "Legal_Notebook">>)}

\* a share is mounted or unmounted between two calls
AccessChanges ==
    /\ \E p \in ReachablePaths :
          accessible' = IF p \in accessible THEN accessible \ {p}
                        ELSE accessible \cup {p}
    /\ UNCHANGED <<ENABLE_SCANNER_DETECTION, accessible_scanner_path_cache,
                   base_path, detected_drive, scanner_calls, IngestionVars, CacheVars, QdrantVars, ChatVars>>

\* the drive mapping appears or disappears between two calls
MappingChanges ==
    /\ detected_drive' = IF detected_drive = "" THEN "F:" ELSE ""
    /\ UNCHANGED <<ENABLE_SCANNER_DETECTION, accessible_scanner_path_cache,
                   base_path, accessible, scanner_calls, IngestionVars, CacheVars, QdrantVars, ChatVars>>

NextScanner ==
    \/ find_accessible_scanner_path
    \/ clear_scanner_path_cache
    \/ set_scanner_detection
    \/ resolve_file_path
    \/ AccessChanges
    \/ MappingChanges

\* The module as imported: detection off, nothing cached; the configuration
\* names a root or not.
InitScanner ==
    /\ IngestionIdle
    /\ CacheIdle /\ QdrantIdle /\ ChatIdle
    /\ ENABLE_SCANNER_DETECTION = FALSE
    /\ accessible_scanner_path_cache = None
    /\ base_path \in {EmptyPath, ConfiguredRoot}
    /\ detected_drive = ""
    /\ accessible = {}
    /\ scanner_calls = <<>>

SpecScanner == InitScanner /\ [][NextScanner]_vars

\* ------------------------------------------------ ChatAgent and ChatService
default_model == "gpt-5-chat"

SystemMessage == [role |-> "system", content |-> "legal_chat"]
HumanMessage(content) == [role |-> "human", content |-> content]

\* chat adds the system prompt before every user message
WithSystemPrompt_always(history) == Append(history, SystemMessage)
\* if not self.client.message_history: add_message(SystemMessage(prompt))
WithSystemPrompt(history) ==
    IF history = <<>> THEN Append(history, SystemMessage) ELSE history

\* the call, the call before it, and the agent, model and history it found
ChatCall(op, arg, outcome) ==
    [op |-> op, arg |-> arg, outcome |-> outcome, after |-> chat_call.op,
     agent_before |-> chat_agent, model_before |-> client_type,
     history_before |-> message_history]

\* chat(user_message): invoke() answers and appends the answer
ChatAnswers ==
    /\ chat_agent > 0
    /\ Len(WithSystemPrompt(message_history)) + 2 <= MaxHistory
    /\ \E user_message \in {"question", "follow-up"} :
          /\ message_history' =
                 Append(Append(WithSystemPrompt(message_history),
                               HumanMessage(user_message)),
                        [role |-> "ai", content |-> "answer"])
          /\ chat_call' = ChatCall("chat", user_message, "returned")
    /\ UNCHANGED <<chat_agent, client_type, IngestionVars, CacheVars, QdrantVars, ScannerVars>>

\* chat(user_message): invoke() raises; the user message stays in the history
ChatRaises ==
    /\ chat_agent > 0
    /\ Len(WithSystemPrompt(message_history)) + 1 <= MaxHistory
    /\ \E user_message \in {"question", "follow-up"} :
          /\ message_history' =
                 Append(WithSystemPrompt(message_history),
                        HumanMessage(user_message))
          /\ chat_call' = ChatCall("chat", user_message, "raised")
    /\ UNCHANGED <<chat_agent, client_type, IngestionVars, CacheVars, QdrantVars, ScannerVars>>

\* clear_conversation(): self.client.clear_history()
clear_conversation ==
    /\ chat_agent > 0
    /\ message_history' = <<>>
    /\ chat_call' = ChatCall("clear_conversation", "", "returned")
    /\ UNCHANGED <<chat_agent, client_type, IngestionVars, CacheVars, QdrantVars, ScannerVars>>

\* model_name != getattr(self.chat_agent, 'client', None): a str compared
\* with an AzureClient object, which defines no equality of its own
DiffersFromClient(model_name) == TRUE

\* The models _create_chat_agent(model_name) tries in turn: model_name, and
\* the default model if that is another one.
CreationOrder(model_name) ==
    IF model_name # default_model
    THEN <<model_name, default_model>>
    ELSE <<model_name>>

\* set_model(model_name): _create_chat_agent clears the old agent's history
\* and builds ChatAgent(AzureClient(model_name)); if building raises it
\* falls back to the default model, and raises if that is what failed.
\* failures is how many of the models tried in turn could not be built.
set_model ==
    /\ chat_agent > 0
    /\ chat_agent < MaxAgents
    /\ \E model_name \in {default_model, "o4-mini"} :
          IF DiffersFromClient(model_name)
          THEN \E failures \in 0..Len(CreationOrder(model_name)) :
                  IF failures < Len(CreationOrder(model_name))
                  THEN /\ chat_agent' = chat_agent + 1
                       /\ client_type' = CreationOrder(model_name)[failures + 1]
                       /\ message_history' = <<>>
                       /\ chat_call' = ChatCall("set_model", model_name, "returned")
                  ELSE /\ message_history' = <<>>
                       /\ chat_call' = ChatCall("set_model", model_name, "raised")
                       /\ UNCHANGED <<chat_agent, client_type>>
          ELSE /\ chat_call' = ChatCall("set_model", model_name, "returned")
               /\ UNCHANGED <<chat_agent, client_type, message_history>>
    /\ UNCHANGED <<IngestionVars, CacheVars, QdrantVars, ScannerVars>>

NextChat ==
    \/ ChatAnswers
    \/ ChatRaises
    \/ clear_conversation
    \/ set_model

\* ChatService(): the first agent, created for the default model
InitChat ==
    /\ IngestionIdle
    /\ CacheIdle /\ QdrantIdle /\ ScannerIdle
    /\ chat_agent = 1
    /\ client_type = default_model
    /\ message_history = <<>>
    /\ chat_call = [op |-> "none"]

SpecChat == InitChat /\ [][NextChat]_vars

\* ===================================================================== claims
SetMin(S) == CHOOSE x \in S : \A y \in S : x <= y
SetMax(S) == CHOOSE x \in S : \A y \in S : x >= y

Extracted == text.source = "pymupdf"

\* Character offset at which page p's own text begins in the document text.
PageOffset(p) == Len(Concat(SubSeq(pages, 1, p - 1)))

\* Characters of content covered by the first n tokens.
TokenChars(ids, n) == Len(Concat(SubSeq(ids, 1, n)))

\* The characters [from, to) of content that chunk k was decoded from.
TrueSpan(k) ==
    LET ids == Encode(text.content)
        w == SplitWindows(Len(ids), 0, chunkSize, chunkOverlap)[k]
    IN <<TokenChars(ids, w[1]), TokenChars(ids, w[2])>>

\* Pages whose text contributes at least one character to chunk k.
TruePages(k) ==
    {p \in 1..Len(pages) :
        /\ pages[p] # <<>>
        /\ PageOffset(p) < TrueSpan(k)[2]
        /\ PageOffset(p) + Len(pages[p]) > TrueSpan(k)[1]}

\* C1: every chunk text_splitter returns for a paginated document is
\* attributed to the page range it spans: start_page is the first and end_page
\* the last page whose text contributes a character to the chunk.
C1_ChunkAttributedToSpannedPages ==
    (call = "text_splitter" /\ i > 0 /\ Extracted /\ page_map # <<>>)
        => /\ TruePages(i) # {}
           /\ page_range.start_page = SetMin(TruePages(i))
           /\ page_range.end_page = SetMax(TruePages(i))

\* C2: the page map of an N-page document has N entries, page numbers 1..N in
\* increasing order, and contiguous character ranges.
C2_PageMapContiguous ==
    Extracted =>
        /\ Len(text.page_map) = Len(pages)
        /\ \A k \in 1..Len(text.page_map) : text.page_map[k][3] = k
        /\ \A k \in 1..(Len(text.page_map) - 1) :
              text.page_map[k][2] = text.page_map[k + 1][1]

\* C3: every page-map entry has start_char < end_char; an empty page has width
\* 1 and a page with text has the width of its text.
C3_EntryWidths ==
    Extracted =>
        \A k \in 1..Len(text.page_map) :
            LET e == text.page_map[k]
            IN /\ e[1] < e[2]
               /\ pages[k] = <<>> => e[2] = e[1] + 1
               /\ pages[k] # <<>> => e[2] - e[1] = Len(pages[k])

C3_Witness ==
    /\ Extracted
    /\ \E k \in 1..Len(pages) : pages[k] = <<>>
    /\ \E k \in 1..Len(pages) : Len(pages[k]) = 2

\* C4: find_page_range returns, for every input, start_page >= 1,
\* end_page >= 1 and start_page <= end_page.
C4_ResolverTotal ==
    call = "done" =>
        /\ page_range.start_page >= 1
        /\ page_range.end_page >= 1
        /\ page_range.start_page <= page_range.end_page

C4_Witness ==
    /\ call = "done"
    /\ Len(page_map) = 2
    /\ chunk_start < chunk_end
    /\ chunk_start < page_map[1][2] /\ chunk_end > page_map[1][1]
    /\ chunk_start < page_map[2][2] /\ chunk_end > page_map[2][1]
    /\ page_range = [start_page |-> 1, end_page |-> 2]

\* C5: when some entry overlaps the chunk (chunk_start < end_char and
\* chunk_end > start_char), start_page is the lowest and end_page the highest
\* page number among the overlapping entries; on [(0,10,1),(10,20,2),(20,30,3)]
\* (5,15) gives {1,2}, (12,18) gives {2,2} and (25,35) gives {3,3}.
C5_OverlapRange ==
    call = "done" =>
        LET over == {k \in 1..Len(page_map) :
                        chunk_start < page_map[k][2] /\ chunk_end > page_map[k][1]}
        IN /\ (chunk_start < chunk_end /\ over # {}) =>
                 /\ page_range.start_page = SetMin({page_map[k][3] : k \in over})
                 /\ page_range.end_page = SetMax({page_map[k][3] : k \in over})
           /\ (page_map = P4Map /\ chunk_start = 5 /\ chunk_end = 15) =>
                 page_range = [start_page |-> 1, end_page |-> 2]
           /\ (page_map = P4Map /\ chunk_start = 12 /\ chunk_end = 18) =>
                 page_range = [start_page |-> 2, end_page |-> 2]
           /\ (page_map = P4Map /\ chunk_start = 25 /\ chunk_end = 35) =>
                 page_range = [start_page |-> 3, end_page |-> 3]

C5_Witness ==
    /\ call = "done"
    /\ page_map = P4Map
    /\ chunk_start = 25
    /\ chunk_end = 35
    /\ page_range = [start_page |-> 3, end_page |-> 3]

ScenarioResolved ==
    /\ pages \in ScenarioDocs
    /\ Extracted
    /\ call = "done"
    /\ chunk_start = 95
    /\ chunk_end = 105
    /\ page_range # NoRange

\* C6 as stated: page 1 of 100 characters, page 2 empty, page 3 non-empty;
\* the chunk span [95,105) resolves to {start_page: 1, end_page: 2}.
C6_ScenarioAsStated ==
    ScenarioResolved => page_range = [start_page |-> 1, end_page |-> 2]

\* C6 amended: in that scenario the chunk span [95,105) resolves to
\* {start_page: 1, end_page: 3}.
C6_ScenarioAmended ==
    ScenarioResolved => page_range = [start_page |-> 1, end_page |-> 3]

C6_Witness ==
    /\ ScenarioResolved
    /\ page_map[2] = <<100, 101, 2>>
    /\ page_map[3][1] = 100
    /\ page_range.end_page = 3

\* C7: the span computed for every chunk lies in the document's content:
\* 0 <= chunk_start < chunk_end <= len(content).
C7_SpanInsideContent ==
    (call = "text_splitter" /\ i > 0) =>
        /\ 0 <= chunk_start
        /\ chunk_start < chunk_end
        /\ chunk_end <= Len(text.content)

\* The text extraction recorded for page p: content[start_char:end_char], and
\* the empty string for a widened entry (one that holds no character of its
\* own: the next page, or the end of content, starts where it starts).
RecordedText(p) ==
    LET pm == text.page_map
        nextStart == IF p < Len(pm) THEN pm[p + 1][1] ELSE Len(text.content)
    IN IF nextStart = pm[p][1] THEN <<>>
       ELSE Slice(text.content, pm[p][1], pm[p][2])

FetchReturned ==
    call = "done" /\ paginated /\ fetched # None /\ doc = "closed" /\ failure = "none"

\* C8: for every page p in 1..N, get_text_from_page_range(doc, p, p) returns
\* the text that get_text_with_pages recorded for page p.
C8_FetchRoundTrip ==
    (FetchReturned /\ Extracted /\ start_page = end_page
        /\ start_page \in 1..Len(pages))
        => fetched[1] = RecordedText(start_page)

C8_Witness ==
    /\ FetchReturned
    /\ Extracted
    /\ start_page = 2
    /\ end_page = 2
    /\ Len(pages) >= 2
    /\ pages[1] # <<>>
    /\ fetched[1] = <<"b", "a">>

\* The text of pages max(1, sp) .. min(N, ep), in page order.
PagesText(sp, ep) ==
    LET lo == IF sp > 1 THEN sp ELSE 1
        hi == IF ep < Len(pages) THEN ep ELSE Len(pages)
    IN IF sp > Len(pages) \/ lo > hi THEN <<>>
       ELSE Concat([k \in 1..(hi - lo + 1) |-> pages[lo + k - 1]])

\* C9: get_text_from_page_range returns the text of pages
\* max(1,start_page)..min(N,end_page) in order, and "" when start_page > N or
\* the range is empty or inverted; for N = 5, (6,10) and (3,2) give "" and
\* (1,5) gives the full text.
C9_FetchRange ==
    FetchReturned =>
        /\ fetched[1] = PagesText(start_page, end_page)
        /\ (pages = FiveDoc /\ start_page = 6 /\ end_page = 10) => fetched[1] = <<>>
        /\ (pages = FiveDoc /\ start_page = 3 /\ end_page = 2) => fetched[1] = <<>>
        /\ (pages = FiveDoc /\ start_page = 1 /\ end_page = 5) =>
              fetched[1] = <<"a", "b", "a", "a", "b", "b">>

C9_Witness ==
    /\ FetchReturned
    /\ pages = FiveDoc
    /\ start_page = 1
    /\ end_page = 5
    /\ fetched[1] = <<"a", "b", "a", "a", "b", "b">>

\* C10: no call of get_text_with_pages or get_text_from_page_range ends with
\* its document handle still open.
C10_HandleClosedOnExit ==
    call \in {"none", "done"} => doc # "open"

\* text_splitter has returned chunk_data
SplitReturned == call = "done" /\ chunkSize > 0

\* the call's token count is exactly 2*chunk_size - overlap, 0 < overlap
ExactlyTwoWindows ==
    /\ chunkSize > 0
    /\ chunkOverlap > 0
    /\ Len(Encode(text.content)) = 2 * chunkSize - chunkOverlap

CursorAt(k) == Len(Concat([j \in 1..(k - 1) |-> chunk_data[j].content]))

\* no entry of the page map overlaps the span
NoOverlap(cs, ce, pm) ==
    \A k \in 1..Len(pm) : ~(cs < pm[k][2] /\ ce > pm[k][1])

\* C12: across the chunk sequence text_splitter builds for a paginated
\* document, start_page never decreases from one chunk to the next, also for
\* chunks resolved by the fallbacks and for documents with empty pages.
C12_StartPageMonotone ==
    \A k \in 1..(Len(chunk_data) - 1) :
        chunk_data[k + 1].start_page >= chunk_data[k].start_page

C12_Witness ==
    /\ SplitReturned
    /\ text.source = "pymupdf"
    /\ \E p \in 1..Len(pages) : pages[p] = <<>>
    /\ Len(chunk_data) >= 3
    /\ LET n == Len(chunk_data)
       IN /\ NoOverlap(CursorAt(n), CursorAt(n + 1), page_map)
          /\ chunk_data[n].start_page > 1
          /\ chunk_data[1].start_page = 1

\* the page numbers present in the page map
PageNumbers(pm) == {pm[k][3] : k \in 1..Len(pm)}

\* C13: with a non-empty page map and chunk_start < chunk_end, start_page and
\* end_page are both page numbers of entries of the page map, and some
\* entry's page number lies in [start_page, end_page].
C13_RangeCoversEntry ==
    (call = "done" /\ page_map # <<>> /\ chunk_start < chunk_end) =>
        /\ page_range.start_page \in PageNumbers(page_map)
        /\ page_range.end_page \in PageNumbers(page_map)
        /\ \E n \in PageNumbers(page_map) :
              page_range.start_page <= n /\ n <= page_range.end_page

C13_Witness ==
    /\ call = "done"
    /\ Len(page_map) = 2
    /\ chunk_start < chunk_end
    /\ chunk_start < page_map[2][2] /\ chunk_end > page_map[2][1]
    /\ ~(chunk_start < page_map[1][2] /\ chunk_end > page_map[1][1])
    /\ page_range = [start_page |-> 2, end_page |-> 2]

\* distance from chunk_start to entry k, as the rule states it
RuleDistance(k) ==
    IF chunk_start < page_map[k][1] THEN page_map[k][1] - chunk_start
    ELSE IF chunk_start >= page_map[k][2] THEN chunk_start - page_map[k][2] + 1
    ELSE 0

\* the first entry at minimum distance
RuleNearest ==
    SetMin({k \in 1..Len(page_map) :
               \A j \in 1..Len(page_map) : RuleDistance(k) <= RuleDistance(j)})

\* the nearest-page fallback decided the call
NearestDecided ==
    /\ call = "done"
    /\ page_map # <<>>
    /\ chunk_start < chunk_end
    /\ NoOverlap(chunk_start, chunk_end, page_map)
    /\ \A k \in 1..Len(page_map) :
          ~(chunk_start >= page_map[k][1] /\ chunk_start < page_map[k][2])

\* C14: when no entry overlaps or contains the chunk, start_page and end_page
\* are both the page number of the entry at minimum distance from chunk_start,
\* the first such entry on a tie; page 1 is not returned when an entry of
\* another page is strictly nearer than every entry of page 1.
C14_NearestPage ==
    NearestDecided =>
        /\ page_range.start_page = page_map[RuleNearest][3]
        /\ page_range.end_page = page_map[RuleNearest][3]
        /\ (\E k \in 1..Len(page_map) :
               /\ page_map[k][3] # 1
               /\ \A j \in 1..Len(page_map) :
                     page_map[j][3] = 1 => RuleDistance(k) < RuleDistance(j))
              => page_range.start_page # 1

C14_Witness ==
    /\ NearestDecided
    /\ Len(page_map) = 2
    /\ RuleDistance(2) < RuleDistance(1)
    /\ page_range = [start_page |-> 2, end_page |-> 2]

\* a tie between the two entries, resolved to the first
C14_WitnessTie ==
    /\ NearestDecided
    /\ Len(page_map) = 2
    /\ RuleDistance(2) = RuleDistance(1)
    /\ page_range = [start_page |-> 1, end_page |-> 1]

\* find_page_range has returned to a caller other than text_splitter
ResolveReturned == call = "done" /\ chunkSize = 0 /\ page_range # NoRange

\* C15: find_page_range returns {start_page: 1, end_page: 1} whenever the page
\* map is empty or chunk_start >= chunk_end, and text_splitter gives
\* start_page = end_page = 1 to every chunk of a document whose page map is
\* empty or absent.
C15_DefaultRange ==
    /\ (ResolveReturned /\ (page_map = <<>> \/ chunk_start >= chunk_end))
          => page_range = [start_page |-> 1, end_page |-> 1]
    /\ (chunkSize > 0 /\ text.page_map = <<>>)
          => \A k \in 1..Len(chunk_data) :
                chunk_data[k].start_page = 1 /\ chunk_data[k].end_page = 1

\* an empty span inside page 2 resolves to page 1
C15_Witness ==
    /\ ResolveReturned
    /\ Len(page_map) = 2
    /\ chunk_start = chunk_end
    /\ chunk_start > page_map[2][1] /\ chunk_start < page_map[2][2]
    /\ page_range = [start_page |-> 1, end_page |-> 1]

\* two chunks of a document extracted without a page map
C15_WitnessSplit ==
    /\ SplitReturned
    /\ text.page_map = <<>>
    /\ Len(chunk_data) >= 2
    /\ chunk_data[2].start_page = 1

\* an empty page map given to find_page_range
C15_WitnessEmptyMap ==
    /\ ResolveReturned
    /\ page_map = <<>>
    /\ chunk_start < chunk_end

\* C16: text_splitter returns exactly one record per chunk of the token
\* splitter, in the same order, with the chunk text unchanged as content; a
\* document with empty content yields zero records.
C16_OneRecordPerChunk ==
    /\ call = "text_splitter" =>
          /\ Len(chunk_data) = i
          /\ \A k \in 1..i : chunk_data[k].content = chunks[k]
    /\ SplitReturned =>
          /\ Len(chunk_data) = Len(chunks)
          /\ \A k \in 1..Len(chunks) : chunk_data[k].content = chunks[k]
          /\ chunks = split_text(text.content, chunkSize, chunkOverlap)
          /\ text.content = <<>> => chunk_data = <<>>

C16_Witness ==
    /\ SplitReturned
    /\ Len(chunk_data) >= 3
    /\ chunk_data[1].content # chunk_data[2].content
    /\ chunk_data[2].content # chunk_data[3].content

\* text_splitter called on a document with empty content
C16_WitnessEmpty ==
    /\ SplitReturned
    /\ text.content = <<>>
    /\ chunk_data = <<>>

\* C17: the page map get_text_with_pages returns covers exactly
\* [0, len(content)]: the first entry starts at 0 and the last entry ends at
\* len(content), also when the last page is empty.
C17_MapCoversContent ==
    (Extracted /\ text.page_map # <<>>) =>
        /\ text.page_map[1][1] = 0
        /\ text.page_map[Len(text.page_map)][2] = Len(text.content)

\* C18: get_text_from_page_range never raises to its caller: any failure to
\* open or read the document, paginated or not, makes it return the empty
\* string.
C18_FetchNeverRaises ==
    /\ call # "raised in get_text_from_page_range"
    /\ (call = "done" /\ fetched # None /\ failure # "none") => fetched = <<<<>>>>

\* a page of the PDF could not be read
C18_Witness ==
    /\ call = "done"
    /\ paginated
    /\ failure = "read"
    /\ page_num >= 1
    /\ extracted_text # <<>>
    /\ fetched = <<<<>>>>

\* the file that is not a PDF could not be read
C18_WitnessFlat ==
    /\ call = "done"
    /\ ~paginated
    /\ failure = "read"
    /\ Concat(pages) # <<>>
    /\ fetched = <<<<>>>>

\* get_text_with_pages has returned and nothing was called since
ExtractReturned == call = "none" /\ text.source # "none"

\* C19: extraction never propagates a failure: when the paginated extractor
\* fails, get_text_with_pages returns the plain extractor's result, which has
\* no page map; when the plain extractor fails too or yields nothing, the
\* result is {content: ""}; a dict with a content string is returned in every
\* case.
C19_ExtractionNeverRaises ==
    /\ call # "raised in get_text_with_pages"
    /\ ExtractReturned =>
          /\ text.content \in Seq(Alphabet)
          /\ (paginated /\ failure # "none") =>
                /\ text.source \in {"tika", "empty"}
                /\ text.page_map = <<>>
          /\ text.source = "empty" => text.content = <<>>
          /\ (paginated /\ failure = "none") => text.source = "pymupdf"

\* a page could not be read and the plain extractor returned the text
C19_Witness ==
    /\ ExtractReturned
    /\ paginated
    /\ failure = "read"
    /\ page_map # <<>>
    /\ text.source = "tika"
    /\ text.content # <<>>
    /\ text.page_map = <<>>

\* both extractors failed
C19_WitnessBoth ==
    /\ ExtractReturned
    /\ paginated
    /\ failure = "open"
    /\ Concat(pages) # <<>>
    /\ text.source = "empty"

\* the value of a decimal numeral; -1 when the string is not a canonical
\* numeral (empty, a character that is no digit, or a leading zero)
DigitValue(c) ==
    IF c \in {DigitChar(d) : d \in 0..9}
    THEN CHOOSE d \in 0..9 : DigitChar(d) = c
    ELSE 0 - 1

RECURSIVE DigitsValue(_)
DigitsValue(w) ==
    IF w = <<>> THEN 0
    ELSE LET front == DigitsValue(SubSeq(w, 1, Len(w) - 1))
             last == DigitValue(w[Len(w)])
         IN IF front < 0 \/ last < 0 THEN 0 - 1 ELSE 10 * front + last

NumeralValue(w) ==
    IF w = <<>> \/ (Len(w) > 1 /\ w[1] = "0") THEN 0 - 1 ELSE DigitsValue(w)

\* C20: every payload the driver builds has page_range equal to the decimal
\* numeral of start_page when start_page = end_page and to the two numerals
\* joined by "-" otherwise, with start_page and end_page copied unchanged from
\* the chunk record.
C20_PayloadPageRange ==
    \A b \in 1..Len(uploaded) : \A k \in 1..Len(uploaded[b].metadatas) :
        LET p == uploaded[b].metadatas[k]
            chunk == files[uploaded[b].file].chunks[p.chunk_index + 1]
            dashes == {d \in 1..Len(p.page_range) : p.page_range[d] = "-"}
        IN /\ p.start_page = chunk.start_page
           /\ p.end_page = chunk.end_page
           /\ p.start_page = p.end_page =>
                 /\ dashes = {}
                 /\ NumeralValue(p.page_range) = p.start_page
           /\ p.start_page # p.end_page =>
                 /\ Cardinality(dashes) = 1
                 /\ \A d \in dashes :
                       /\ NumeralValue(SubSeq(p.page_range, 1, d - 1)) = p.start_page
                       /\ NumeralValue(SubSeq(p.page_range, d + 1,
                                              Len(p.page_range))) = p.end_page

\* one upload carries "10" for a single page and "2-11" for a range
C20_Witness ==
    /\ call = "finished"
    /\ \E b \in 1..Len(uploaded) :
          /\ Len(uploaded[b].metadatas) = 2
          /\ uploaded[b].metadatas[1].page_range = <<"2", "-", "1", "0">>
          /\ uploaded[b].metadatas[2].page_range = <<"1", "0">>
          /\ uploaded[b].metadatas[2].start_page = 10

\* total length of the first k chunks of the token splitter
ChunksLength(k) == Len(Concat(SubSeq(chunks, 1, k)))

\* C24: text_splitter walks the chunks with a running cursor: the first chunk
\* has chunk_start = 0, every chunk has chunk_end = chunk_start +
\* len(chunk_text), every later chunk starts where the previous one ended, and
\* the final cursor is the sum of all chunk text lengths.
C24_RunningCursor ==
    (call = "text_splitter" \/ SplitReturned) =>
        /\ char_position = ChunksLength(i)
        /\ i = 1 => chunk_start = 0
        /\ i >= 1 =>
              /\ chunk_start = ChunksLength(i - 1)
              /\ chunk_end = chunk_start + Len(chunks[i])
        /\ SplitReturned => char_position = ChunksLength(Len(chunks))

C24_Witness ==
    /\ SplitReturned
    /\ Len(chunks) = 3
    /\ chunk_start = Len(chunks[1]) + Len(chunks[2])
    /\ chunk_start >= 3
    /\ char_position > Len(text.content)

\* C25: in find_page_range the containment loop never produces the result:
\* when chunk_start < chunk_end and no entry overlaps the chunk, no entry
\* contains chunk_start, and the nearest-page loop decides.
C25_ContainmentNeverDecides ==
    ResolveReturned =>
        /\ ResolvedBy(chunk_start, chunk_end, page_map) # "containment"
        /\ (chunk_start < chunk_end /\ page_map # <<>>
              /\ NoOverlap(chunk_start, chunk_end, page_map)) =>
                ResolvedBy(chunk_start, chunk_end, page_map) = "nearest"

\* a chunk that starts exactly where the only candidate page ends
C25_Witness ==
    /\ ResolveReturned
    /\ Len(page_map) = 2
    /\ chunk_start < chunk_end
    /\ chunk_start = page_map[2][2]
    /\ page_map[2][1] < page_map[2][2]
    /\ ResolvedBy(chunk_start, chunk_end, page_map) = "nearest"
    /\ page_range.start_page = 2

\* the add_embeddings_batch calls made for file f, in order
FileUploads(f) == SelectSeq(uploaded, LAMBDA u : u.file = f)

\* all payloads, and all embeddings, uploaded for file f, in order
FilePayloads(f) ==
    Concat([b \in 1..Len(FileUploads(f)) |-> FileUploads(f)[b].metadatas])

FileEmbeddings(f) ==
    Concat([b \in 1..Len(FileUploads(f)) |-> FileUploads(f)[b].embeddings])

\* the loop went through every batch of file f in this run
ProcessedInRun(f) ==
    \E v \in 1..Len(visited) : visited[v] = [file |-> f, outcome |-> "processed"]

\* C21: for a document of total_chunks chunks ingested in batches of any
\* batch_size >= 1, the driver builds one (embedding, payload) pair per chunk;
\* over all batches the chunk_index values are 0..total_chunks-1, each once,
\* and payload k describes chunk k (same start_page and end_page).
C21_OnePairPerChunk ==
    \A f \in 1..Len(files) :
        LET P == FilePayloads(f)
            E == FileEmbeddings(f)
            cl == files[f].chunks
        IN /\ Len(P) = Len(E)
           /\ Len(P) <= Len(cl)
           /\ \A k \in 1..Len(P) :
                 /\ P[k].chunk_index = k - 1
                 /\ P[k].start_page = cl[k].start_page
                 /\ P[k].end_page = cl[k].end_page
                 /\ P[k].total_chunks = Len(cl)
                 /\ E[k] = Embedding(cl[k].content)
           /\ ProcessedInRun(f) => Len(P) = Len(cl)
           /\ \A b \in 1..Len(FileUploads(f)) :
                 /\ Len(FileUploads(f)[b].metadatas) >= 1
                 /\ Len(FileUploads(f)[b].metadatas) <= batch_size

\* three chunks in batches of two: a full batch and a partial one
C21_Witness ==
    /\ call = "finished"
    /\ ProcessedInRun(1)
    /\ batch_size = 2
    /\ Len(uploaded) = 2
    /\ Len(uploaded[1].metadatas) = 2
    /\ Len(uploaded[2].metadatas) = 1
    /\ uploaded[2].metadatas[1].chunk_index = 2
    /\ uploaded[2].metadatas[1].start_page > uploaded[1].metadatas[2].start_page

\* the loop has left behind exactly the first file_idx files, each once
VisitedInOrder ==
    /\ Len(visited) = file_idx
    /\ file_idx <= Len(files)
    /\ \A k \in 1..Len(visited) : visited[k].file = k

\* the run is over and every discovered file was visited
RunFinished == call = "finished" /\ Len(visited) = Len(files)

C22_WitnessEmpty ==
    /\ RunFinished
    /\ Len(files) = 2
    /\ visited[1].outcome = "no content"
    /\ visited[2].outcome = "raised"
    /\ uploaded # <<>>

\* what happened to file f when the loop left it behind
OutcomesOf(f) == {visited[v].outcome : v \in {w \in 1..Len(visited) : visited[w].file = f}}

\* what C27 says about file f
RecordedOnlyAfterUpload(f) ==
    LET key == FileKey(files[f])
    IN /\ (key \in processed_files_data /\ key \notin loaded) =>
             /\ ProcessedInRun(f)
             /\ Len(FilePayloads(f)) = Len(files[f].chunks)
       /\ (OutcomesOf(f) \cap {"no content", "raised"} # {}) =>
             key \notin processed_files_data
       /\ "already processed" \in OutcomesOf(f) =>
             /\ key \in processed_files_data
             /\ FileUploads(f) = <<>>
       /\ (key \in loaded /\ OutcomesOf(f) # {}) =>
             OutcomesOf(f) = {"already processed"}

\* C27: in both drivers a file is recorded in the processed-files map only
\* after every batch of its chunks was uploaded in that run; a file without
\* content or whose processing raised is not recorded, so it is eligible again
\* on the next run; a recorded file is skipped without extraction or upload.
C27_RecordedOnlyAfterUpload ==
    \A f \in 1..Len(files) : RecordedOnlyAfterUpload(f)

\* the same for the files of a _process_pdfs run only
C27_InProcessPdfs ==
    driver = "_process_pdfs" => \A f \in 1..Len(files) : RecordedOnlyAfterUpload(f)

\* the same for an embedding_test run over files of different names
C27_WithDistinctNames ==
    (\A j, k \in 1..Len(files) : j # k => files[j].name # files[k].name)
        => \A f \in 1..Len(files) : RecordedOnlyAfterUpload(f)

\* ------------------------------------------------------------------ C23
GetReturned ==
    /\ cache_call.op = "get_cached_entry"
    /\ cache_result.status = "returned"

GetRaised ==
    /\ cache_call.op = "get_cached_entry"
    /\ cache_result.status = "raised"

\* C23: get_cached_entry never raises: for every input and every storage
\* condition (no cache directory in the configuration, a missing or corrupt
\* partition file, an entry that cannot be reconstructed) the call returns
\* the reconstructed entry or None.
C23_GetNeverRaises == ~GetRaised

\* With the summary directory configured and the supported cache type, the
\* call returns whatever the partition file holds.
C23_WhenConfigured ==
    (/\ cache_call.op = "get_cached_entry"
     /\ cache_call.cache_type = "SummaryCacheEntry"
     /\ cache_paths # None)
        => /\ cache_result.status = "returned"
           /\ cache_result.value \in
                  {None, <<[source_file |-> cache_call.source_file,
                            client |-> cache_call.client]>>}

\* the supported type is looked up while no summary directory is configured
C23_UnconfiguredLookup ==
    /\ GetRaised
    /\ cache_call.cache_type = "SummaryCacheEntry"
    /\ cache_paths = None

\* ------------------------------------------------------------------ C26
UpsertsOf(start) == {k \in 1..Len(upserts) : upserts[k].batch_start = start}

\* the upsert that ends the call: a third failed attempt or another exception
FinalFailure(u) ==
    \/ u.outcome = "Exception"
    \/ u.outcome = "ResponseHandlingException" /\ u.attempt = MaxAttempts - 1

\* the successful upserts that carried input point p (points count from 1)
UpsertedOk(p) ==
    {k \in 1..Len(upserts) :
        /\ upserts[k].outcome = "ok"
        /\ upserts[k].batch_start < p
        /\ p <= upserts[k].batch_end}

\* C26: add_embeddings_batch upserts sub-batches of at most max_batch_size
\* points in index order; a sub-batch is attempted at most 3 times, is
\* retried only after a ResponseHandlingException and never after a success;
\* when the third attempt fails or another exception occurs the call raises
\* and no later sub-batch is attempted; if the call returns normally every
\* input point was upserted successfully exactly once.
C26_SubBatchUpload ==
    /\ \A k \in 1..Len(upserts) :
          LET u == upserts[k]
          IN  /\ (u.batch_end - u.batch_start) \in 1..max_batch_size
              /\ u.batch_end <= total_points
              /\ k = 1 => u.batch_start = 0
              /\ k < Len(upserts) =>
                    LET v == upserts[k + 1]
                    IN  \/ /\ u.outcome = "ok"
                           /\ v.batch_start = u.batch_end
                        \/ /\ u.outcome = "ResponseHandlingException"
                           /\ v.batch_start = u.batch_start
                           /\ v.batch_end = u.batch_end
              /\ Cardinality(UpsertsOf(u.batch_start)) <= 3
              /\ FinalFailure(u) => k = Len(upserts) /\ upload = "raised"
    /\ upload = "raised" =>
          Len(upserts) > 0 /\ FinalFailure(upserts[Len(upserts)])
    /\ upload = "returned" =>
          \A p \in 1..total_points : Cardinality(UpsertedOk(p)) = 1

\* a call over several sub-batches returned after a retried sub-batch
C26_Witness ==
    /\ upload = "returned"
    /\ total_points > max_batch_size
    /\ \E k \in 1..Len(upserts) :
          upserts[k].outcome = "ResponseHandlingException" /\ upserts[k].attempt = 1

\* the second sub-batch failed three times
C26_WitnessRaised ==
    /\ upload = "raised"
    /\ Len(upserts) = 4
    /\ upserts[1].outcome = "ok"
    /\ \A k \in 2..4 : upserts[k].outcome = "ResponseHandlingException"

\* ------------------------------------------------------------------ C28
Finds(c) == c.op = "find_accessible_scanner_path"
Sets(c) == c.op = "set_scanner_detection"
Invalidates(c) == c.op = "clear_scanner_path_cache" \/ Sets(c)

\* calls j < k with no call satisfying Between(_) strictly between them
Uninterrupted(j, k, Between(_)) ==
    /\ j < k
    /\ \A m \in (j + 1)..(k - 1) : ~Between(scanner_calls[m])

\* C28: once find_accessible_scanner_path has returned, every later call
\* returns the same value without testing paths until
\* clear_scanner_path_cache or set_scanner_detection is called;
\* set_scanner_detection always leaves the cache empty; and after
\* set_scanner_detection(False), resolve_file_path(p) returns p for every p,
\* whatever was cached before.
C28_ScannerPathCache ==
    /\ \A j, k \in 1..Len(scanner_calls) :
          (/\ Finds(scanner_calls[j])
           /\ Finds(scanner_calls[k])
           /\ Uninterrupted(j, k, Invalidates))
              => /\ scanner_calls[k].result = scanner_calls[j].result
                 /\ ~scanner_calls[k].probed
    /\ (Len(scanner_calls) > 0 /\ Sets(scanner_calls[Len(scanner_calls)]))
          => accessible_scanner_path_cache = None
    /\ \A j, k \in 1..Len(scanner_calls) :
          (/\ Sets(scanner_calls[j])
           /\ scanner_calls[j].arg = <<FALSE>>
           /\ scanner_calls[k].op = "resolve_file_path"
           /\ Uninterrupted(j, k, Sets))
              => scanner_calls[k].result = scanner_calls[k].arg

\* a second call returned the cached path although that path is gone
C28_Witness ==
    \E j, k \in 1..Len(scanner_calls) :
        /\ Finds(scanner_calls[j])
        /\ Finds(scanner_calls[k])
        /\ Uninterrupted(j, k, Invalidates)
        /\ scanner_calls[j].probed
        /\ scanner_calls[j].result # <<EmptyPath>>
        /\ scanner_calls[j].result[1] \notin accessible

\* a path was found and cached, detection was switched off, and a relative
\* path was resolved
C28_WitnessDisabled ==
    \E h, j, k \in 1..Len(scanner_calls) :
        /\ h < j
        /\ Finds(scanner_calls[h])
        /\ scanner_calls[h].result # <<EmptyPath>>
        /\ Uninterrupted(h, j, Invalidates)
        /\ Sets(scanner_calls[j])
        /\ scanner_calls[j].arg = <<FALSE>>
        /\ scanner_calls[k].op = "resolve_file_path"
        /\ ~scanner_calls[k].arg[1].abs
        /\ Uninterrupted(j, k, Sets)

\* ------------------------------------------------------------------ C29
SetModelCalled == chat_call.op = "set_model"

\* C29: set_model(m) called when the current chat agent was already created
\* for model m is a no-op: the chat agent object and its conversation
\* history are left unchanged; the agent is only recreated (and its history
\* cleared) when m differs from the active model.
C29_SameModelNoOp ==
    (SetModelCalled /\ chat_call.arg = chat_call.model_before)
        => /\ chat_agent = chat_call.agent_before
           /\ client_type = chat_call.model_before
           /\ message_history = chat_call.history_before

\* What set_model does for every model name: when it returns there is a new
\* agent with an empty history, for the model asked for or the default one.
C29_AlwaysRecreates ==
    SetModelCalled
        => /\ message_history = <<>>
           /\ chat_call.outcome = "returned"
                 => /\ chat_agent = chat_call.agent_before + 1
                    /\ client_type \in {chat_call.arg, default_model}
           /\ chat_call.outcome = "raised"
                 => /\ chat_agent = chat_call.agent_before
                    /\ client_type = chat_call.model_before

\* the active model was selected again in the middle of a conversation
C29_SameModelMidConversation ==
    /\ SetModelCalled
    /\ chat_call.arg = chat_call.model_before
    /\ chat_call.outcome = "returned"
    /\ Len(chat_call.history_before) >= 3

\* ------------------------------------------------------------------ C30
SystemMessages == {k \in 1..Len(message_history) : message_history[k].role = "system"}

\* C30: after any sequence of chat calls (answered or failing in invoke) and
\* clear_conversation calls on a client that starts with an empty history,
\* a non-empty history begins with the system prompt and holds exactly one
\* system message; after clear_conversation the history is empty, and the
\* next chat puts the system prompt back before the user message.
C30_OneSystemPrompt ==
    /\ message_history # <<>> =>
          /\ message_history[1] = SystemMessage
          /\ Cardinality(SystemMessages) = 1
    /\ chat_call.op = "clear_conversation" => message_history = <<>>
    /\ (chat_call.op = "chat" /\ chat_call.history_before = <<>>) =>
          /\ message_history[1] = SystemMessage
          /\ message_history[2] = HumanMessage(chat_call.arg)

\* a chat right after clear_conversation
C30_Witness ==
    /\ chat_call.op = "chat"
    /\ chat_call.after = "clear_conversation"
    /\ chat_call.history_before = <<>>
    /\ Len(message_history) >= 2

\* a conversation of an unanswered, an answered and an unanswered message
C30_WitnessLong ==
    /\ Len(message_history) = 5
    /\ message_history[3].role = "human"
    /\ message_history[4].role = "ai"
    /\ chat_call.outcome = "raised"

====
